---- MODULE Spec2Model ----
(***************************************************************************)
(* Nonce management and transaction submission of the Lighter SDK's        *)
(* SignerClient (src/README.md, the signer module from line 525 on).       *)
(*                                                                         *)
(* One SignerClient instance owns the API-key slots StartApiKey..EndApiKey *)
(* and an OptimisticNonceManager.  Callers start per-operation methods     *)
(* concurrently; JavaScript runs each of them without interruption from    *)
(* one await to the next, so every action below is one such synchronous    *)
(* stretch.  The Exchange (nextNonce, sendTx) and the native signer are    *)
(* external: their answers are chosen nondeterministically.                *)
(***************************************************************************)
EXTENDS Integers, Sequences, FiniteSets, TLC

\* ---------------------------------------------------------------- bounds
StartApiKey == 3
NumSlots == 1
MaxCalls == 2
InitialServerNonce == 1
ManualNonce == 1
UnitSlots == 3
MaxOps == 5
AccountIndex == 7
MaxLeverage == 5
MaxBaseAmount == 2
MethodCalls == 1
MaxBatches == 3
MaxPriorityRequests == 2
MaxExecute == 2
MaxRevert == 2

\* ------------------------------------------------------ program constants
CODE_OK == 200
AUTO == -1
HTTP_BAD_REQUEST == 400
ORDER_TYPE_LIMIT == 0
ORDER_TYPE_MARKET == 1
ORDER_TIME_IN_FORCE_IMMEDIATE_OR_CANCEL == 0
ORDER_TIME_IN_FORCE_GOOD_TILL_TIME == 1
NIL_TRIGGER_PRICE == 0
DEFAULT_28_DAY_ORDER_EXPIRY == -1
DEFAULT_IOC_EXPIRY == 0
CROSS_MARGIN_MODE == 0
ISOLATED_MARGIN_MODE == 1
IMF_SCALE == 10000
TX_TYPE_CHANGE_PUB_KEY == 8
TX_TYPE_CREATE_SUB_ACCOUNT == 9
TX_TYPE_CREATE_PUBLIC_POOL == 10
TX_TYPE_UPDATE_PUBLIC_POOL == 11
TX_TYPE_TRANSFER == 12
TX_TYPE_WITHDRAW == 13
TX_TYPE_CREATE_ORDER == 14
TX_TYPE_CANCEL_ORDER == 15
TX_TYPE_CANCEL_ALL_ORDERS == 16
TX_TYPE_MODIFY_ORDER == 17
TX_TYPE_MINT_SHARES == 18
TX_TYPE_BURN_SHARES == 19
TX_TYPE_UPDATE_LEVERAGE == 20
TX_TYPE_CREATE_GROUP_ORDER == 28

EndApiKey == StartApiKey + NumSlots - 1
Slots == StartApiKey..EndApiKey
Calls == 1..MaxCalls
LastApiKey == StartApiKey + UnitSlots - 1

\* ------------------------------------------------------------ text model
\* A string is a sequence of tokens; "\n" and " " are the white space, the
\* phrase "invalid nonce" and the brace "{" are tokens of their own.  A
\* JavaScript value that may be null is tagged: JNull, or Str(s).
NL == "\n"
SP == " "
INVALID_NONCE == "invalid nonce"
IsSpace(t) == t = NL \/ t = SP

JNull == [kind |-> "null"]
JUndefined == [kind |-> "undefined"]
Str(s) == [kind |-> "str", value |-> s]

RECURSIVE TrimLeft(_)
TrimLeft(s) ==
  IF s = <<>> THEN <<>>
  ELSE IF IsSpace(Head(s)) THEN TrimLeft(Tail(s)) ELSE s

RECURSIVE TrimRight(_)
TrimRight(s) ==
  IF s = <<>> THEN <<>>
  ELSE IF IsSpace(s[Len(s)]) THEN TrimRight(SubSeq(s, 1, Len(s) - 1)) ELSE s

\* String.prototype.trim
Trim(s) == TrimRight(TrimLeft(s))

\* s.split("\n").pop(): what follows the last "\n" of s (all of s if none)
RECURSIVE LastLine(_)
LastLine(s) ==
  IF \E i \in 1..Len(s) : s[i] = NL
  THEN LastLine(Tail(s))
  ELSE s

\* String.prototype.includes, for a one-token needle
Includes(s, t) == \E i \in 1..Len(s) : s[i] = t

\* a JavaScript value used as a condition: null and "" are falsy
Truthy(v) == v.kind /= "null" /\ ~(v.kind = "str" /\ v.value = <<>>)

\* x || y
OrElse(x, y) == IF Truthy(x) THEN x ELSE y

trim_exc(exception_body) ==
  IF LastLine(Trim(exception_body)) /= <<>>
  THEN LastLine(Trim(exception_body))
  ELSE Trim(exception_body)

\* String(error) of an Error that has no message
ErrorName == <<"Error">>

\* error.message || String(error)
MessageOf(error) == OrElse(error.message, Str(ErrorName)).value

\* ------------------------------------------------------- native signer
\* What a Sign<TxType> call may hand back: nothing at all, or a StrOrErr
\* struct whose fields are strings (possibly empty) or null.
SignedPayload(nonce, key) ==
  <<"{", [Nonce |-> nonce, ApiKeyIndex |-> key], "}">>
SignerError == <<"sign", NL, SP, "failed">>
MalformedPayload == <<"panic", NL, "bad", SP>>

RawSignResults(nonce, key) ==
  { JNull,
    [kind |-> "struct", str |-> Str(SignedPayload(nonce, key)), err |-> JNull],
    [kind |-> "struct", str |-> Str(SignedPayload(nonce, key)), err |-> Str(<<>>)],
    [kind |-> "struct", str |-> JNull, err |-> Str(SignerError)],
    [kind |-> "struct", str |-> Str(SignedPayload(nonce, key)), err |-> Str(SignerError)],
    [kind |-> "struct", str |-> JNull, err |-> JNull],
    [kind |-> "struct", str |-> Str(<<>>), err |-> Str(<<>>)],
    [kind |-> "struct", str |-> Str(MalformedPayload), err |-> JNull] }

extractStrOrErr(result) ==
  IF ~Truthy(result)
  THEN [str |-> JNull, err |-> Str(<<"Null result returned">>)]
  ELSE [str |-> OrElse(result.str, JNull), err |-> OrElse(result.err, JNull)]

\* CreateOrder.from_json: the transaction object inside the payload
from_json(txInfo) == [kind |-> "json", value |-> txInfo[2]]

\* ------------------------------------------------------------- Exchange
\* A sendTx answer: a body with a code, or a thrown error that carries an
\* HTTP status (0 when no response arrived) and possibly a message.
RespOk == [kind |-> "data", code |-> CODE_OK]
RespBusiness == [kind |-> "data", code |-> 21104]
ErrorMessages ==
  { Str(<<"Request", NL, SP, INVALID_NONCE, SP, NL>>),
    Str(<<"Request", NL, SP, "failed", NL>>),
    Str(<<SP>>),
    JNull }
ThrownErrors ==
  { [kind |-> "throw", status |-> st, message |-> m] :
      st \in {HTTP_BAD_REQUEST, 0}, m \in ErrorMessages }

\* A nextNonce answer: a body with a nonce, a body without one, or a throw.
FetchAnswers(n) ==
  { [kind |-> "ok", nonce |-> n], [kind |-> "undefined"], [kind |-> "error"] }
NoAnswer == [kind |-> "none"]
\* the Exchange has read nonce n for a nextNonce request; what the client
\* gets (one of FetchAnswers(n)) shows when it resumes
Fetched(n) == [kind |-> "fetched", nonce |-> n]
\* the Exchange has handled a sendTx request, accepting the transaction or not
Handled(ok) == [kind |-> "handled", accepted |-> ok]
SendTxAnswers(ok) ==
  IF ok
  THEN {RespOk} \cup {e \in ThrownErrors : e.status = 0}
  ELSE {RespBusiness} \cup ThrownErrors

\* ------------------------------------------------- ZkLighter (the rollup)
\* The storage of the contract is one record; a call either reverts, leaving
\* the storage as it was, or ends with a new storage. Arithmetic on the
\* uint64 counters is checked (solidity 0.8.25): an underflow reverts.
\* Of StoredBatchInfo the fields are kept that the four batch functions read
\* other than through the hash.
ZeroHash == [kind |-> "zero"]
\* keccak256(abi.encode(batch)): distinct batches have distinct hashes, and
\* none has the hash zero
hashStoredBatchInfo(batch) == [kind |-> "hash", of |-> batch]

GenesisStateRoot == "genesis"
StateRoots == {"rootA", "rootB"}

genesisBatchInfo ==
  [ batchNumber |-> 0, endBlockNumber |-> 0, batchSize |-> 0,
    priorityRequestCount |-> 0, onChainOperationsHash |-> 0,
    stateRoot |-> GenesisStateRoot ]

\* a slot of onChainExecutionQueue that was never written or was deleted
NoQueueItem == [batchNumber |-> 0, totalPriorityRequests |-> 0]

\* the storage after initialize()
Deployed ==
  [ committedBatchesCount |-> 0,
    verifiedBatchesCount |-> 0,
    executedBatchesCount |-> 0,
    committedPriorityRequestCount |-> 0,
    verifiedPriorityRequestCount |-> 0,
    executedPriorityRequestCount |-> 0,
    openPriorityRequestCount |-> 0,
    pendingOnChainBatchesCount |-> 0,
    executedOnChainBatchesCount |-> 0,
    onChainExecutionQueue |-> [i \in 0..MaxBatches |-> NoQueueItem],
    storedBatchHashes |-> [n \in 0..MaxBatches |->
                             IF n = 0 THEN hashStoredBatchInfo(genesisBatchInfo)
                             ELSE ZeroHash],
    stateRoot |-> GenesisStateRoot,
    lastVerifiedStateRoot |-> GenesisStateRoot,
    lastVerifiedEndBlockNumber |-> 0 ]

\* no call of the contract went through yet
NoRollupCall == [fn |-> "none", batches |-> <<>>]

Reverted(error) == [kind |-> "revert", error |-> error]
Done(s) == [kind |-> "ok", state |-> s]

\* a read of a mapping: zero outside what was written
HashAt(s, n) ==
  IF n \in DOMAIN s.storedBatchHashes THEN s.storedBatchHashes[n] ELSE ZeroHash
QueueAt(s, i) ==
  IF i \in DOMAIN s.onChainExecutionQueue THEN s.onChainExecutionQueue[i]
  ELSE NoQueueItem

\* addPriorityRequest: ++openPriorityRequestCount
addPriorityRequest(s) ==
  [s EXCEPT !.openPriorityRequestCount = @ + 1]

\* commitBatch(newBatchData, lastStoredBatch); checksPass: the checks of the
\* pubdata commitments, of the timestamps and of the prefix hash all pass
commitBatch(s, newBatchData, lastStoredBatch, isValidator, checksPass) ==
  LET lastPriorityRequestToCommitCount ==
        s.committedPriorityRequestCount + newBatchData.priorityRequestCount
      number == s.committedBatchesCount + 1
      queued == newBatchData.onChainOperationsHash /= 0
  IN
  IF ~isValidator THEN Reverted("ZkLighter_OnlyValidator")
  ELSE IF newBatchData.endBlockNumber <= lastStoredBatch.endBlockNumber
  THEN Reverted("ZkLighter_NonIncreasingBlockNumber")
  ELSE IF newBatchData.endBlockNumber /=
            lastStoredBatch.endBlockNumber + newBatchData.batchSize
  THEN Reverted("ZkLighter_InvalidBatchSize")
  ELSE IF HashAt(s, s.committedBatchesCount) /= hashStoredBatchInfo(lastStoredBatch)
  THEN Reverted("ZkLighter_StoredBatchInfoMismatch")
  ELSE IF s.executedPriorityRequestCount + s.openPriorityRequestCount
            < lastPriorityRequestToCommitCount
  THEN Reverted("ZkLighter_CommitBatchPriorityRequestCountMismatch")
  ELSE IF ~checksPass THEN Reverted("ZkLighter_InvalidCommitment")
  ELSE Done(
    [s EXCEPT
       !.committedBatchesCount = number,
       !.onChainExecutionQueue =
          IF queued
          THEN [@ EXCEPT ![s.executedOnChainBatchesCount + s.pendingOnChainBatchesCount] =
                  [ batchNumber |-> number,
                    totalPriorityRequests |-> lastPriorityRequestToCommitCount ]]
          ELSE @,
       !.pendingOnChainBatchesCount = IF queued THEN @ + 1 ELSE @,
       !.storedBatchHashes = [@ EXCEPT ![number] = hashStoredBatchInfo(
          [ batchNumber |-> number,
            endBlockNumber |-> newBatchData.endBlockNumber,
            batchSize |-> newBatchData.batchSize,
            priorityRequestCount |-> newBatchData.priorityRequestCount,
            onChainOperationsHash |-> newBatchData.onChainOperationsHash,
            stateRoot |-> newBatchData.newStateRoot ])],
       !.committedPriorityRequestCount = lastPriorityRequestToCommitCount ])

\* the lazy update of the executed counts that ends verifyBatch and
\* executeBatches; root: the state root it installs
LazyUpdate(s, root) ==
  IF s.pendingOnChainBatchesCount = 0
     \/ QueueAt(s, s.executedOnChainBatchesCount).batchNumber > s.verifiedBatchesCount
  THEN IF s.verifiedPriorityRequestCount < s.executedPriorityRequestCount
          \/ s.openPriorityRequestCount
               < s.verifiedPriorityRequestCount - s.executedPriorityRequestCount
       THEN Reverted("Panic(0x11)")
       ELSE Done(
         [s EXCEPT
            !.executedBatchesCount = s.verifiedBatchesCount,
            !.stateRoot = root,
            !.openPriorityRequestCount =
               @ - (s.verifiedPriorityRequestCount - s.executedPriorityRequestCount),
            !.executedPriorityRequestCount = s.verifiedPriorityRequestCount ])
  ELSE Done(s)

\* mutant: a batch is verified without the look at the stored hash
verifyBatch_uncommitted(s, batch, proofOk, isValidator) ==
  IF ~isValidator THEN Reverted("ZkLighter_OnlyValidator")
  ELSE IF batch.batchNumber /= s.verifiedBatchesCount + 1
  THEN Reverted("ZkLighter_VerifyBatchNotInOrder")
  ELSE IF ~proofOk THEN Reverted("ZkLighter_VerifyBatchProofFailed")
  ELSE LazyUpdate(
    [s EXCEPT
       !.verifiedBatchesCount = @ + 1,
       !.verifiedPriorityRequestCount = @ + batch.priorityRequestCount,
       !.lastVerifiedStateRoot = batch.stateRoot,
       !.lastVerifiedEndBlockNumber = batch.endBlockNumber ],
    batch.stateRoot)

\* verifyBatch(batch, proof); proofOk: verifier.Verify accepts the proof
verifyBatch(s, batch, proofOk, isValidator) ==
  IF ~isValidator THEN Reverted("ZkLighter_OnlyValidator")
  ELSE IF batch.batchNumber /= s.verifiedBatchesCount + 1
  THEN Reverted("ZkLighter_VerifyBatchNotInOrder")
  ELSE IF hashStoredBatchInfo(batch) /= HashAt(s, batch.batchNumber)
  THEN Reverted("ZkLighter_CannotVerifyNonCommittedBatch")
  ELSE IF ~proofOk THEN Reverted("ZkLighter_VerifyBatchProofFailed")
  ELSE LazyUpdate(
    [s EXCEPT
       !.verifiedBatchesCount = @ + 1,
       !.verifiedPriorityRequestCount = @ + batch.priorityRequestCount,
       !.lastVerifiedStateRoot = batch.stateRoot,
       !.lastVerifiedEndBlockNumber = batch.endBlockNumber ],
    batch.stateRoot)

\* one turn of the loop of executeBatches, _executeOneBatch included;
\* pubDataOk: the withdraw logs are well formed and hash to the batch's
\* onChainOperationsHash
ExecuteOne(s, batch, pubDataOk) ==
  LET item == QueueAt(s, s.executedOnChainBatchesCount) IN
  IF batch.batchNumber > s.verifiedBatchesCount
  THEN Reverted("ZkLighter_CannotExecuteNonVerifiedBatch")
  ELSE IF batch.batchNumber /= item.batchNumber
  THEN Reverted("ZkLighter_BatchNotInOnChainQueue")
  ELSE IF HashAt(s, batch.batchNumber) /= hashStoredBatchInfo(batch)
  THEN Reverted("ZkLighter_StoredBatchInfoMismatch")
  ELSE IF ~pubDataOk THEN Reverted("ZkLighter_OnChainOperationsHashMismatch")
  ELSE IF item.totalPriorityRequests < s.executedPriorityRequestCount
          \/ s.pendingOnChainBatchesCount = 0
          \/ s.openPriorityRequestCount
               < item.totalPriorityRequests - s.executedPriorityRequestCount
  THEN Reverted("Panic(0x11)")
  ELSE Done(
    [s EXCEPT
       !.executedPriorityRequestCount = item.totalPriorityRequests,
       !.executedBatchesCount = batch.batchNumber,
       !.executedOnChainBatchesCount = @ + 1,
       !.pendingOnChainBatchesCount = @ - 1,
       !.openPriorityRequestCount =
          @ - (item.totalPriorityRequests - s.executedPriorityRequestCount) ])

RECURSIVE ExecuteLoop(_, _, _, _)
ExecuteLoop(s, batches, onChainOperationsPubData, i) ==
  IF i > Len(batches) THEN Done(s)
  ELSE LET out == ExecuteOne(s, batches[i], onChainOperationsPubData[i]) IN
       IF out.kind = "revert" THEN out
       ELSE ExecuteLoop(out.state, batches, onChainOperationsPubData, i + 1)

\* executeBatches(batches, onChainOperationsPubData)
executeBatches(s, batches, onChainOperationsPubData) ==
  IF Len(batches) /= Len(onChainOperationsPubData)
  THEN Reverted("ZkLighter_ExecuteInputLengthMismatch")
  ELSE IF Len(batches) > s.pendingOnChainBatchesCount
  THEN Reverted("ZkLighter_ExecuteInputLengthGreaterThanPendingCount")
  ELSE LET out == ExecuteLoop(s, batches, onChainOperationsPubData, 1) IN
       IF out.kind = "revert" THEN out
       ELSE IF Len(batches) = 0 THEN Reverted("Panic(0x11)")
       ELSE LET after == [out.state EXCEPT
                            !.stateRoot = batches[Len(batches)].stateRoot]
            IN LazyUpdate(after, after.lastVerifiedStateRoot)

\* one turn of the loop of revertBatches
RevertOne(s, storedBatchInfo) ==
  LET queued == storedBatchInfo.onChainOperationsHash /= 0
      totalOnChainBatchesCount ==
        s.executedOnChainBatchesCount + s.pendingOnChainBatchesCount
      verified == storedBatchInfo.batchNumber <= s.verifiedBatchesCount
  IN
  IF storedBatchInfo.endBlockNumber = 0
  THEN Reverted("AdditionalZkLighter_CannotRevertGenesisBatch")
  ELSE IF HashAt(s, s.committedBatchesCount) /= hashStoredBatchInfo(storedBatchInfo)
  THEN Reverted("AdditionalZkLighter_StoredBatchHashMismatch")
  ELSE IF storedBatchInfo.batchNumber /= s.committedBatchesCount
  THEN Reverted("AdditionalZkLighter_StoredBatchInfoMismatch")
  ELSE IF queued /\ s.pendingOnChainBatchesCount = 0
  THEN Reverted("AdditionalZkLighter_CannotRevertExecutedBatch")
  ELSE IF queued /\ QueueAt(s, totalOnChainBatchesCount - 1).batchNumber
                      /= storedBatchInfo.batchNumber
  THEN Reverted("AdditionalZkLighter_StoredBatchInfoMismatch")
  ELSE IF s.committedBatchesCount = 0
          \/ s.committedPriorityRequestCount < storedBatchInfo.priorityRequestCount
          \/ (verified /\ s.verifiedBatchesCount = 0)
          \/ (verified /\ s.verifiedPriorityRequestCount
                            < storedBatchInfo.priorityRequestCount)
  THEN Reverted("Panic(0x11)")
  ELSE Done(
    [s EXCEPT
       !.storedBatchHashes = [@ EXCEPT ![s.committedBatchesCount] = ZeroHash],
       !.onChainExecutionQueue =
          IF queued THEN [@ EXCEPT ![totalOnChainBatchesCount - 1] = NoQueueItem]
          ELSE @,
       !.pendingOnChainBatchesCount = IF queued THEN @ - 1 ELSE @,
       !.committedBatchesCount = @ - 1,
       !.committedPriorityRequestCount = @ - storedBatchInfo.priorityRequestCount,
       !.verifiedBatchesCount = IF verified THEN @ - 1 ELSE @,
       !.verifiedPriorityRequestCount =
          IF verified THEN @ - storedBatchInfo.priorityRequestCount ELSE @ ])

RECURSIVE RevertLoop(_, _, _)
RevertLoop(s, batchesToRevert, i) ==
  IF i > Len(batchesToRevert) THEN Done(s)
  ELSE LET out == RevertOne(s, batchesToRevert[i]) IN
       IF out.kind = "revert" THEN out
       ELSE RevertLoop(out.state, batchesToRevert, i + 1)

\* revertBatches(_batchesToRevert, _remainingBatch)
revertBatches(s, batchesToRevert, remainingBatch, isValidator) ==
  IF ~isValidator THEN Reverted("ZkLighter_OnlyValidator")
  ELSE LET out == RevertLoop(s, batchesToRevert, 1) IN
       IF out.kind = "revert" THEN out
       ELSE IF out.state.committedBatchesCount < out.state.executedBatchesCount
               \/ out.state.committedPriorityRequestCount
                    < out.state.executedPriorityRequestCount
       THEN Reverted("AdditionalZkLighter_CannotRevertExecutedBatch")
       ELSE IF HashAt(out.state, out.state.committedBatchesCount)
                 /= hashStoredBatchInfo(remainingBatch)
       THEN Reverted("AdditionalZkLighter_StoredBatchHashMismatch")
       ELSE Done(
         IF remainingBatch.batchNumber = out.state.verifiedBatchesCount
         THEN [out.state EXCEPT
                 !.lastVerifiedStateRoot = remainingBatch.stateRoot,
                 !.lastVerifiedEndBlockNumber = remainingBatch.endBlockNumber]
         ELSE out.state)

\* ------------------------------------------------------------------ state
VARIABLES
  nonces,         \* OptimisticNonceManager.nonces
  currentApiKey,  \* OptimisticNonceManager.currentApiKey
  initAt,         \* initialize(): the slot its loop is at (EndApiKey + 1: over)
  initAnswer,     \* initialize(): the nextNonce answer it awaits
  activeApiKey,   \* native signer: the key SwitchAPIKey made active
  serverNonce,    \* Exchange: the next nonce it expects, per slot
  calls,          \* the per-operation method invocations in progress
  returned,       \* the invocation that returned or threw in the last step
  history,        \* per slot, every nonce next_nonce returned, in order
  mark,           \* per slot, Len(history) at the last rollback or refresh
  endApiKey,      \* OptimisticNonceManager.endApiKey, SignerClient.end_api_key_index
  recent,         \* unit harness: the last two operations applied, with results
  issued,         \* unit harness: how many next_nonce() calls were made
  opsDone,        \* unit harness: how many operations were applied
  built,          \* the call of the SignerClient constructor and its outcome
  rollup          \* ZkLighter: its storage and the last call that went through

vars == << nonces, currentApiKey, initAt, initAnswer, activeApiKey,
           serverNonce, calls, returned, history, mark,
           endApiKey, recent, issued, opsDone, built, rollup >>

\* what the client's actions leave alone
harness == << endApiKey, recent, issued, opsDone, built, rollup >>

\* ------------------------------------------------- OptimisticNonceManager
\* this.nonces is a Map: get of a missing key is undefined, set adds the key
MapGet(m, k) == IF k \in DOMAIN m THEN m[k] ELSE 0
MapSet(m, k, v) == [x \in (DOMAIN m) \cup {k} |-> IF x = k THEN v ELSE m[x]]

\* mutant: the counter is not advanced past the nonce handed out
next_nonce_reissue(ns, cur) ==
  [ apiKeyIndex |-> cur,
    nonce |-> MapGet(ns, cur),
    nonces |-> MapSet(ns, cur, MapGet(ns, cur)),
    currentApiKey |-> IF cur + 1 > endApiKey THEN StartApiKey ELSE cur + 1 ]

\* mutant: the counter is advanced by two
next_nonce_skip(ns, cur) ==
  [ apiKeyIndex |-> cur,
    nonce |-> MapGet(ns, cur),
    nonces |-> MapSet(ns, cur, MapGet(ns, cur) + 2),
    currentApiKey |-> IF cur + 1 > endApiKey THEN StartApiKey ELSE cur + 1 ]

\* mutant: the round robin wraps one slot early
next_nonce_wraps_early(ns, cur) ==
  [ apiKeyIndex |-> cur,
    nonce |-> MapGet(ns, cur),
    nonces |-> MapSet(ns, cur, MapGet(ns, cur) + 1),
    currentApiKey |-> IF cur + 1 >= endApiKey THEN StartApiKey ELSE cur + 1 ]

next_nonce(ns, cur) ==
  [ apiKeyIndex |-> cur,
    nonce |-> MapGet(ns, cur),
    nonces |-> MapSet(ns, cur, MapGet(ns, cur) + 1),
    currentApiKey |-> IF cur + 1 > endApiKey THEN StartApiKey ELSE cur + 1 ]

\* mutant: the decrement is not guarded
acknowledge_failure_unguarded(ns, api_key_index) ==
  MapSet(ns, api_key_index, MapGet(ns, api_key_index) - 1)

\* mutant: the rollback lowers every counter that is above 0
acknowledge_failure_all(ns, api_key_index) ==
  [ k \in DOMAIN ns |-> IF ns[k] > 0 THEN ns[k] - 1 ELSE ns[k] ]

acknowledge_failure(ns, api_key_index) ==
  IF MapGet(ns, api_key_index) > 0
  THEN MapSet(ns, api_key_index, MapGet(ns, api_key_index) - 1)
  ELSE ns

\* mutant: the refresh never lowers the local counter
hard_refresh_nonce_forward(ns, api_key_index, answer) ==
  IF answer.kind = "ok" /\ answer.nonce > MapGet(ns, api_key_index)
  THEN MapSet(ns, api_key_index, answer.nonce)
  ELSE ns

\* mutant: a refresh whose fetch fails rolls the counter back
hard_refresh_nonce_rollback(ns, api_key_index, answer) ==
  IF answer.kind = "ok"
  THEN MapSet(ns, api_key_index, answer.nonce)
  ELSE MapSet(ns, api_key_index, MapGet(ns, api_key_index) - 1)

\* the part of hard_refresh_nonce that follows its await of nextNonce
hard_refresh_nonce(ns, api_key_index, answer) ==
  IF answer.kind = "ok" THEN MapSet(ns, api_key_index, answer.nonce) ELSE ns

\* one turn of initialize's loop, after its await of nextNonce
\* mutant: a failed fetch resets the counter
initialize_store_reset(ns, i, answer) ==
  IF answer.kind = "ok" THEN MapSet(ns, i, answer.nonce) ELSE MapSet(ns, i, 0)

initialize_store(ns, i, answer) ==
  IF answer.kind = "ok" THEN MapSet(ns, i, answer.nonce) ELSE ns

WrappedOps == {"create_order"}
BareOps == {"create_sub_account"}
Ops == WrappedOps \cup BareOps
\* the methods that do not go through process_api_key_and_nonce
Unwrapped == BareOps \cup {"change_api_key"}
\* the methods that end in create_order
OrderOps == {"create_order", "create_market_order", "create_market_order_if_slippage"}
\* the wrapped methods whose closure signs with its arguments and the nonce
\* and sends what the signer returned
PlainOps ==
  { "create_grouped_orders", "cancel_order", "withdraw", "cancel_all_orders",
    "modify_order", "create_public_pool", "update_public_pool", "mint_shares",
    "burn_shares" }
\* the methods whose closure returns the parsed transaction
ParsedOps == OrderOps \cup {"create_grouped_orders", "cancel_order", "withdraw"}

tx_type_grouped_as_order(op) ==
  CASE op = "change_api_key" -> TX_TYPE_CHANGE_PUB_KEY
    [] op = "create_sub_account" -> TX_TYPE_CREATE_SUB_ACCOUNT
    [] op = "create_public_pool" -> TX_TYPE_CREATE_PUBLIC_POOL
    [] op = "update_public_pool" -> TX_TYPE_UPDATE_PUBLIC_POOL
    [] op = "transfer" -> TX_TYPE_TRANSFER
    [] op = "withdraw" -> TX_TYPE_WITHDRAW
    [] op = "cancel_order" -> TX_TYPE_CANCEL_ORDER
    [] op = "cancel_all_orders" -> TX_TYPE_CANCEL_ALL_ORDERS
    [] op = "modify_order" -> TX_TYPE_MODIFY_ORDER
    [] op = "mint_shares" -> TX_TYPE_MINT_SHARES
    [] op = "burn_shares" -> TX_TYPE_BURN_SHARES
    [] op = "update_leverage" -> TX_TYPE_UPDATE_LEVERAGE
    [] OTHER -> TX_TYPE_CREATE_ORDER

\* the tx_type each method passes to send_tx
tx_type(op) ==
  CASE op = "change_api_key" -> TX_TYPE_CHANGE_PUB_KEY
    [] op = "create_sub_account" -> TX_TYPE_CREATE_SUB_ACCOUNT
    [] op = "create_public_pool" -> TX_TYPE_CREATE_PUBLIC_POOL
    [] op = "update_public_pool" -> TX_TYPE_UPDATE_PUBLIC_POOL
    [] op = "transfer" -> TX_TYPE_TRANSFER
    [] op = "withdraw" -> TX_TYPE_WITHDRAW
    [] op \in OrderOps -> TX_TYPE_CREATE_ORDER
    [] op = "cancel_order" -> TX_TYPE_CANCEL_ORDER
    [] op = "cancel_all_orders" -> TX_TYPE_CANCEL_ALL_ORDERS
    [] op = "modify_order" -> TX_TYPE_MODIFY_ORDER
    [] op = "mint_shares" -> TX_TYPE_MINT_SHARES
    [] op = "burn_shares" -> TX_TYPE_BURN_SHARES
    [] op = "update_leverage" -> TX_TYPE_UPDATE_LEVERAGE
    [] op = "create_grouped_orders" -> TX_TYPE_CREATE_GROUP_ORDER

NoResult == [kind |-> "none"]
Tuple(tx, resp, err) == [kind |-> "tuple", tx |-> tx, resp |-> resp, err |-> err]
Thrown(message) == [kind |-> "thrown", message |-> message]

\* the arguments of a method other than nonce and api_key_index: none kept
NoInput == [kind |-> "none"]

IdleCall ==
  [ pc |-> "idle", op |-> "none", input |-> NoInput,
    api_key_index |-> AUTO, nonce |-> AUTO,
    auto |-> FALSE, actualApiKeyIndex |-> AUTO, actualNonce |-> AUTO,
    pos |-> 0, pending |-> NoAnswer, fetch |-> NoAnswer, settled |-> NoAnswer,
    refetched |-> NoAnswer,
    switches |-> <<>>, signs |-> <<>>, sends |-> <<>>, tx_types |-> <<>>,
    acks |-> <<>>,
    refreshes |-> <<>>,
    result |-> NoResult ]

\* an invocation that is over keeps nothing but that fact
OverCall == [IdleCall EXCEPT !.pc = "over"]
NoCall == IdleCall

\* no constructor call is on record
NoConstruction == [status |-> "none"]

Init ==
  /\ nonces = [i \in Slots |-> 0]
  /\ currentApiKey = StartApiKey
  /\ initAt = StartApiKey
  /\ initAnswer = NoAnswer
  /\ activeApiKey \in Slots
  /\ serverNonce = [i \in Slots |-> InitialServerNonce]
  /\ calls = [c \in Calls |-> IdleCall]
  /\ returned = NoCall
  /\ history = [i \in Slots |-> <<>>]
  /\ mark = [i \in Slots |-> 0]
  /\ endApiKey = EndApiKey
  /\ recent = <<>>
  /\ issued = 0
  /\ opsDone = 0
  /\ built = NoConstruction
  /\ rollup = [storage |-> Deployed, call |-> NoRollupCall]

\* ghost bookkeeping: slot k saw a rollback or a refresh
Marked(m, k) == IF k \in Slots THEN [m EXCEPT ![k] = Len(history[k])] ELSE m

\* A call whose awaited promise is already settled resumes in a microtask:
\* before any answer of the Exchange is delivered, though after whatever the
\* callers still do synchronously (start further calls).
MicrotaskPending == \E c \in Calls : calls[c].pc \in {"awaiting", "signing"}

\* ------------------------------------------------------------ initialize
\* The Exchange answers the nextNonce request of initialize().
InitServer ==
  /\ ~MicrotaskPending
  /\ initAt <= endApiKey
  /\ initAnswer = NoAnswer
  /\ initAnswer' = Fetched(serverNonce[initAt])
  /\ returned' = NoCall
  /\ UNCHANGED << nonces, currentApiKey, initAt, activeApiKey, serverNonce,
                  calls, history, mark >>
  /\ UNCHANGED harness

\* initialize() resumes: stores the nonce and requests the next slot's.
InitResume(answer) ==
  /\ ~MicrotaskPending
  /\ initAt <= endApiKey
  /\ nonces' = initialize_store(nonces, initAt, answer)
  /\ mark' = IF answer.kind = "ok" THEN Marked(mark, initAt) ELSE mark
  /\ initAt' = initAt + 1
  /\ initAnswer' = NoAnswer
  /\ returned' = NoCall
  /\ UNCHANGED << currentApiKey, activeApiKey, serverNonce, calls, history >>

InitStore ==
  /\ initAnswer /= NoAnswer
  /\ \E answer \in FetchAnswers(initAnswer.nonce) : InitResume(answer)
  /\ UNCHANGED harness

\* ------------------------------------------------------------ SignerClient
\* send_tx up to its await: a payload that is no JSON object is thrown
send_tx(tx_info) ==
  IF tx_info[1] /= "{"
  THEN [kind |-> "throw", status |-> 0, message |-> Str(tx_info)]
  ELSE [kind |-> "request", tx_info |-> tx_info]

\* the signing closure of create_order, from the signer's answer on, up to
\* its await of the Exchange: a value it returns, an error it throws, or
\* the sendTx request it has made
SignAndSend(raw) ==
  LET tx_info == extractStrOrErr(raw) IN
  IF Truthy(tx_info.err)
  THEN [kind |-> "value", result |-> Tuple(JNull, JNull, tx_info.err)]
  ELSE IF ~Truthy(tx_info.str)
  THEN [kind |-> "value",
        result |-> Tuple(JNull, JNull, Str(<<"No transaction info">>))]
  ELSE send_tx(tx_info.str.value)

\* the closure after its await of send_tx
CreateOrderResult(tx_info, api_response) ==
  Tuple(from_json(tx_info), api_response, JNull)

\* create_sub_account after its await of send_tx
CreateSubAccountResult(tx_info, api_response) ==
  Tuple(Str(tx_info), api_response, JNull)

\* the closures of transfer and update_leverage after their await of send_tx
TxInfoResult(tx_info, api_response) ==
  Tuple(Str(tx_info), api_response, JNull)

\* change_api_key after its await of send_tx
ChangeApiKeyResult(api_response) ==
  [kind |-> "pair", resp |-> api_response, err |-> JNull]

\* what the closure of a wrapped method returns once sendTx has answered
ClosureResult(op, tx_info, api_response) ==
  IF op \in ParsedOps
  THEN CreateOrderResult(tx_info, api_response)
  ELSE TxInfoResult(tx_info, api_response)

\* process_api_key_and_nonce: the test that follows "await func(...)"
IsFailure(result) ==
  \/ (result.resp = JNull /\ Truthy(result.err))
  \/ (result.resp /= JNull /\ result.resp.code /= CODE_OK)

\* process_api_key_and_nonce: the test of its catch block
IsInvalidNonce(error) ==
  /\ error.status = HTTP_BAD_REQUEST
  /\ error.message /= JNull
  /\ Includes(error.message.value, INVALID_NONCE)

ErrorTuple(error) == Tuple(JNull, JNull, Str(trim_exc(MessageOf(error))))

\* mutant: the try body rolls the nonce back whatever the result
TryBody_rollback(call, ns, result) ==
  [ call |-> [call EXCEPT
                !.pc = "done",
                !.result = result,
                !.acks = Append(@, call.actualApiKeyIndex)],
    nonces |-> acknowledge_failure(ns, call.actualApiKeyIndex) ]

\* process_api_key_and_nonce, the try body after "await func(...)" yielded
\* a value: roll the nonce back on a failure, return the value
TryBody(call, ns, result) ==
  [ call |-> [call EXCEPT
                !.pc = "done",
                !.result = result,
                !.acks = IF IsFailure(result)
                         THEN Append(@, call.actualApiKeyIndex) ELSE @],
    nonces |-> IF IsFailure(result)
               THEN acknowledge_failure(ns, call.actualApiKeyIndex)
               ELSE ns ]

\* mutant: the catch block treats an invalid nonce like any other error
CatchBlock_rollback(call, ns, error) ==
  [ call |-> [call EXCEPT
                !.pc = "done",
                !.result = ErrorTuple(error),
                !.acks = Append(@, call.actualApiKeyIndex)],
    nonces |-> acknowledge_failure(ns, call.actualApiKeyIndex) ]

\* mutant: the catch block returns the error of any other failure without
\* rolling the nonce back
CatchBlock_keep(call, ns, error) ==
  IF IsInvalidNonce(error)
  THEN [ call |-> [call EXCEPT
                     !.pc = "refreshing",
                     !.pending = error,
                     !.fetch = NoAnswer,
                     !.refreshes = Append(@, call.actualApiKeyIndex)],
         nonces |-> ns ]
  ELSE [ call |-> [call EXCEPT
                     !.pc = "done",
                     !.result = ErrorTuple(error),
                     !.acks = Append(@, call.actualApiKeyIndex)],
         nonces |-> ns ]

\* process_api_key_and_nonce, the catch block up to its await (if any)
CatchBlock(call, ns, error) ==
  IF IsInvalidNonce(error)
  THEN [ call |-> [call EXCEPT
                     !.pc = "refreshing",
                     !.pending = error,
                     !.fetch = NoAnswer,
                     !.refreshes = Append(@, call.actualApiKeyIndex)],
         nonces |-> ns ]
  ELSE [ call |-> [call EXCEPT
                     !.pc = "done",
                     !.result = ErrorTuple(error),
                     !.acks = Append(@, call.actualApiKeyIndex)],
         nonces |-> acknowledge_failure(ns, call.actualApiKeyIndex) ]

\* mutant: after the refresh the wrapper signs with the fresh nonce and
\* submits again
CatchAfterRefresh_retry(call, ns, answer) ==
  LET fresh == MapGet(hard_refresh_nonce(ns, call.actualApiKeyIndex, answer),
                      call.actualApiKeyIndex) IN
  [ call |-> [call EXCEPT
                !.pc = "sent",
                !.pending = NoAnswer,
                !.actualNonce = fresh,
                !.signs = Append(@, [nonce |-> fresh,
                                     key |-> call.actualApiKeyIndex,
                                     answer |-> call.signs[1].answer,
                                     request |-> call.signs[1].request]),
                !.sends = Append(@, SignedPayload(fresh, call.actualApiKeyIndex)),
                !.tx_types = Append(@, tx_type(call.op))],
    nonces |-> hard_refresh_nonce(ns, call.actualApiKeyIndex, answer) ]

\* process_api_key_and_nonce, the catch block once hard_refresh_nonce got
\* its nextNonce answer: store it, return the error
CatchAfterRefresh(call, ns, answer) ==
  [ call |-> [call EXCEPT !.pc = "done", !.result = ErrorTuple(call.pending)],
    nonces |-> hard_refresh_nonce(ns, call.actualApiKeyIndex, answer) ]

\* mutant: the wrapper takes a nonce from the manager whatever it is given
WrapperResolution_always_auto(api_key_index, nonce, ns, cur) ==
  [ apiKeyIndex |-> next_nonce(ns, cur).apiKeyIndex,
    nonce |-> next_nonce(ns, cur).nonce,
    nonces |-> next_nonce(ns, cur).nonces,
    currentApiKey |-> next_nonce(ns, cur).currentApiKey,
    called |-> TRUE ]

\* process_api_key_and_nonce, its first lines: the slot and the nonce the
\* call goes on with, and what became of the manager ("called": next_nonce
\* was called)
WrapperResolution(api_key_index, nonce, ns, cur) ==
  IF api_key_index = AUTO /\ nonce = AUTO
  THEN [ apiKeyIndex |-> next_nonce(ns, cur).apiKeyIndex,
         nonce |-> next_nonce(ns, cur).nonce,
         nonces |-> next_nonce(ns, cur).nonces,
         currentApiKey |-> next_nonce(ns, cur).currentApiKey,
         called |-> TRUE ]
  ELSE [ apiKeyIndex |-> api_key_index,
         nonce |-> nonce,
         nonces |-> ns,
         currentApiKey |-> cur,
         called |-> FALSE ]

\* switch_api_key: the slot the native signer signs under afterwards
switch_api_key(active, api_key, err) == IF err THEN active ELSE api_key

\* ----------------------------------------------------- L1 signed methods
\* JSON objects are functions of their field names.
Without(obj, field) == [f \in (DOMAIN obj) \ {field} |-> obj[f]]
With(obj, field, v) ==
  [f \in (DOMAIN obj) \cup {field} |-> IF f = field THEN v ELSE obj[f]]

OwnerKey == <<"ee">>
\* not a private key: new ethers.Wallet throws on it
BadOwnerKey == <<>>
L1Message == <<"sign", SP, "this">>
\* wallet.signMessage(message) of the wallet made from key
signMessage(key, message) == [kind |-> "signature", key |-> key, message |-> message]

\* what SignTransfer and SignChangePubKey hand back: a transaction with the
\* message the owner has to sign
L1Payload(nonce, key) ==
  <<"{", [Nonce |-> nonce, ApiKeyIndex |-> key, MessageToSign |-> L1Message], "}">>

L1RawSignResults(nonce, key) ==
  { JNull,
    [kind |-> "struct", str |-> Str(L1Payload(nonce, key)), err |-> JNull],
    [kind |-> "struct", str |-> Str(SignedPayload(nonce, key)), err |-> JNull],
    [kind |-> "struct", str |-> JNull, err |-> Str(SignerError)],
    [kind |-> "struct", str |-> Str(L1Payload(nonce, key)), err |-> Str(SignerError)],
    [kind |-> "struct", str |-> Str(<<>>), err |-> JNull],
    [kind |-> "struct", str |-> Str(MalformedPayload), err |-> JNull] }

ThrownBy(text) == [kind |-> "throw", status |-> 0, message |-> Str(text)]

\* mutant: the message stays in the transaction that is sent
AttachL1Sig_keep(txInfoStr, eth_private_key) ==
  IF txInfoStr[1] /= "{"
  THEN ThrownBy(<<"Unexpected", SP, "token">>)
  ELSE IF eth_private_key = BadOwnerKey
  THEN ThrownBy(<<"invalid", SP, "private", SP, "key">>)
  ELSE IF "MessageToSign" \notin DOMAIN txInfoStr[2]
  THEN ThrownBy(<<"invalid", SP, "message">>)
  ELSE [ kind |-> "l1signed",
         tx_info |-> <<"{",
                       With(txInfoStr[2], "L1Sig",
                            signMessage(eth_private_key, txInfoStr[2].MessageToSign)),
                       "}">> ]

\* sign_transfer and sign_change_api_key from JSON.parse on: the message is
\* taken out of the transaction, signed by the wallet of eth_private_key,
\* and the signature put in. JSON.parse throws on a text that is no JSON,
\* new ethers.Wallet on a key that is none, signMessage on undefined.
AttachL1Sig(txInfoStr, eth_private_key) ==
  IF txInfoStr[1] /= "{"
  THEN ThrownBy(<<"Unexpected", SP, "token">>)
  ELSE IF eth_private_key = BadOwnerKey
  THEN ThrownBy(<<"invalid", SP, "private", SP, "key">>)
  ELSE IF "MessageToSign" \notin DOMAIN txInfoStr[2]
  THEN ThrownBy(<<"invalid", SP, "message">>)
  ELSE [ kind |-> "l1signed",
         tx_info |-> <<"{",
                       With(Without(txInfoStr[2], "MessageToSign"), "L1Sig",
                            signMessage(eth_private_key, txInfoStr[2].MessageToSign)),
                       "}">> ]

\* the closure of transfer up to the await of wallet.signMessage
TransferSign(input, raw) ==
  LET tx_info == extractStrOrErr(raw) IN
  IF Truthy(tx_info.err)
  THEN [kind |-> "value", result |-> Tuple(JNull, JNull, tx_info.err)]
  ELSE IF ~Truthy(tx_info.str)
  THEN [kind |-> "value",
        result |-> Tuple(JNull, JNull, Str(<<"No transaction info returned">>))]
  ELSE AttachL1Sig(tx_info.str.value, input.eth_private_key)

ErrorPair(err) == [kind |-> "pair", resp |-> JNull, err |-> err]

\* change_api_key up to the await of wallet.signMessage
ChangeApiKeySign(input, raw) ==
  IF ~Truthy(raw)
  THEN [kind |-> "value",
        result |-> ErrorPair(Str(<<"Failed to sign change API key: null result returned">>))]
  ELSE IF Truthy(extractStrOrErr(raw).err)
  THEN [kind |-> "value", result |-> ErrorPair(extractStrOrErr(raw).err)]
  ELSE IF ~Truthy(extractStrOrErr(raw).str)
  THEN [kind |-> "value",
        result |-> ErrorPair(Str(<<"No transaction info returned">>))]
  ELSE AttachL1Sig(extractStrOrErr(raw).str.value, input.eth_private_key)

\* ------------------------------------------------------------ order methods
\* mutant: the market order is forwarded as a limit order, good till time
create_market_order_limit(args) ==
  [ base_amount |-> args.base_amount,
    price |-> args.avg_execution_price,
    is_ask |-> args.is_ask,
    order_type |-> ORDER_TYPE_LIMIT,
    time_in_force |-> ORDER_TIME_IN_FORCE_GOOD_TILL_TIME,
    trigger_price |-> NIL_TRIGGER_PRICE,
    order_expiry |-> DEFAULT_28_DAY_ORDER_EXPIRY ]

\* create_market_order: the arguments it forwards to create_order
create_market_order(args) ==
  [ base_amount |-> args.base_amount,
    price |-> args.avg_execution_price,
    is_ask |-> args.is_ask,
    order_type |-> ORDER_TYPE_MARKET,
    time_in_force |-> ORDER_TIME_IN_FORCE_IMMEDIATE_OR_CANCEL,
    trigger_price |-> NIL_TRIGGER_PRICE,
    order_expiry |-> DEFAULT_IOC_EXPIRY ]

\* mutant: the margin fraction is rounded up
margin_fraction_ceiling(leverage) == (IMF_SCALE + leverage - 1) \div leverage

\* Math.floor(10_000 / leverage), leverage a positive integer
margin_fraction(leverage) == IMF_SCALE \div leverage

\* a number given for an optional argument
Num(n) == [kind |-> "number", value |-> n]

\* a level of the order book, its price and remaining_base_amount after
\* parseInt(text.replace(".", ""))
Level(price, size) == [price |-> price, size |-> size]

\* Math.min
Min(a, b) == IF a < b THEN a ELSE b

\* create_market_order_if_slippage, the loop over the levels:
\* matched_usd_amount and matched_size when it ends
RECURSIVE Walk(_, _, _, _)
Walk(orders, base_amount, matched_usd_amount, matched_size) ==
  IF orders = <<>> \/ matched_size = base_amount
  THEN [usd |-> matched_usd_amount, size |-> matched_size]
  ELSE Walk(Tail(orders), base_amount,
            matched_usd_amount
              + Head(orders).price * Min(base_amount - matched_size, Head(orders).size),
            matched_size + Min(base_amount - matched_size, Head(orders).size))

\* 100 * actualIdealPrice * (1 + max_slippage * (is_ask ? -1 : 1)), with
\* max_slippage given in hundredths
Acceptable100(ideal, max_slippage, is_ask) ==
  ideal * (100 + max_slippage * (IF is_ask THEN -1 ELSE 1))

\* the comparison of potential_execution_price = usd / size with the
\* acceptable price; 0 / 0 is NaN, which compares false
Excessive(matched, acceptable100, is_ask) ==
  /\ matched.size /= 0
  /\ \/ is_ask /\ matched.usd * 100 < acceptable100 * matched.size
     \/ ~is_ask /\ matched.usd * 100 > acceptable100 * matched.size

\* Math.round(x / 100) for x >= 0
Round100(x) == (2 * x + 100) \div 200

\* create_market_order_if_slippage once orderBookOrders has answered with
\* book (the side of the book the order would match, or no answer at all):
\* it throws, returns an error, or goes on to create_order
create_market_order_if_slippage(args, book) ==
  IF book.kind = "error"
  THEN [kind |-> "throw", message |-> <<"Request", SP, "failed">>]
  ELSE IF args.ideal_price = JUndefined /\ book.orders = <<>>
  THEN [kind |-> "throw", message |-> <<"No price available in order book">>]
  ELSE
    LET ideal == IF args.ideal_price = JUndefined
                 THEN book.orders[1].price ELSE args.ideal_price.value
        matched == Walk(book.orders, args.base_amount, 0, 0)
        acceptable100 == Acceptable100(ideal, args.max_slippage, args.is_ask)
    IN IF Excessive(matched, acceptable100, args.is_ask)
       THEN [kind |-> "value",
             result |-> Tuple(JNull, JNull, Str(<<"Excessive slippage">>))]
       ELSE IF matched.size < args.base_amount
       THEN [kind |-> "value",
             result |-> Tuple(JNull, JNull,
               Str(<<"Cannot be sure slippage will be acceptable due to the high size">>))]
       ELSE [kind |-> "order",
             order |-> [ base_amount |-> args.base_amount,
                         price |-> Round100(acceptable100),
                         is_ask |-> args.is_ask,
                         order_type |-> ORDER_TYPE_MARKET,
                         time_in_force |-> ORDER_TIME_IN_FORCE_IMMEDIATE_OR_CANCEL,
                         trigger_price |-> NIL_TRIGGER_PRICE,
                         order_expiry |-> DEFAULT_IOC_EXPIRY ]]

\* the function of the native signer the sign_* helper of a method calls
SignFn(op) ==
  CASE op = "create_grouped_orders" -> "SignCreateGroupedOrders"
    [] op = "cancel_order" -> "SignCancelOrder"
    [] op = "withdraw" -> "SignWithdraw"
    [] op = "cancel_all_orders" -> "SignCancelAllOrders"
    [] op = "modify_order" -> "SignModifyOrder"
    [] op = "create_public_pool" -> "SignCreatePublicPool"
    [] op = "update_public_pool" -> "SignUpdatePublicPool"
    [] op = "mint_shares" -> "SignMintShares"
    [] op = "burn_shares" -> "SignBurnShares"

\* the call of the native signer a method's closure makes with nonce n
SignRequest(op, input, n) ==
  IF op = "update_leverage"
  THEN [ fn |-> "SignUpdateLeverage",
         market_index |-> input.market_index,
         fraction |-> margin_fraction(input.leverage),
         margin_mode |-> input.margin_mode,
         nonce |-> n ]
  ELSE IF op = "transfer"
  THEN [fn |-> "SignTransfer", nonce |-> n]
  ELSE IF op = "create_market_order"
  THEN [fn |-> "SignCreateOrder", order |-> create_market_order(input), nonce |-> n]
  ELSE IF op = "create_market_order_if_slippage"
  THEN [ fn |-> "SignCreateOrder",
         order |-> create_market_order_if_slippage(input.args, input.book).order,
         nonce |-> n ]
  ELSE IF op \in PlainOps
  THEN [fn |-> SignFn(op), nonce |-> n]
  ELSE [fn |-> "SignCreateOrder", order |-> input, nonce |-> n]

\* what the native signer may hand back to the closure of op
SignerAnswers(op, nonce, key) ==
  IF op = "transfer" THEN L1RawSignResults(nonce, key) ELSE RawSignResults(nonce, key)

\* the closure of op from the signer's answer on, up to its first await that
\* suspends it
Closure(op, input, raw) ==
  IF op = "transfer" THEN TransferSign(input, raw) ELSE SignAndSend(raw)

\* ghost bookkeeping: an invocation that is over moves to "returned"
Over(call) == call.pc = "done" \/ call.pc = "thrown"
Kept(call) == IF Over(call) THEN OverCall ELSE call
Shown(call) ==
  IF Over(call)
  THEN [call EXCEPT !.pending = NoAnswer, !.fetch = NoAnswer]
  ELSE NoCall
\* ghost bookkeeping: how the promise the call awaited has settled
Settled(call, answer) == [call EXCEPT !.settled = answer]
\* ghost bookkeeping: what the fetch of the call's hard refresh came to
Refetched(call, answer) == [call EXCEPT !.refetched = answer]

\* A caller invokes a wrapped method: the stretch from the entry of
\* process_api_key_and_nonce to the first await that suspends it.
StartWrapper(c, op, input, api_key_index, nonce, switchErr) ==
  LET r == WrapperResolution(api_key_index, nonce, nonces, currentApiKey)
      auto == r.called
      actualApiKeyIndex == r.apiKeyIndex
      actualNonce == r.nonce
      entered == [calls[c] EXCEPT
                    !.op = op, !.input = input,
                    !.api_key_index = api_key_index,
                    !.nonce = nonce, !.auto = auto,
                    !.actualApiKeyIndex = actualApiKeyIndex,
                    !.actualNonce = actualNonce,
                    !.pos = IF auto THEN Len(history[actualApiKeyIndex]) + 1
                            ELSE 0,
                    !.switches = Append(@, actualApiKeyIndex)]
  IN
  /\ nonces' = r.nonces
  /\ currentApiKey' = r.currentApiKey
  /\ history' = IF auto
                THEN [history EXCEPT ![actualApiKeyIndex] = Append(@, actualNonce)]
                ELSE history
  /\ activeApiKey' = switch_api_key(activeApiKey, actualApiKeyIndex, switchErr)
  /\ IF switchErr
     THEN /\ calls' = [calls EXCEPT ![c] = OverCall]
          /\ returned' = [entered EXCEPT
                            !.pc = "thrown",
                            !.result = Thrown(<<"error switching api key">>)]
     ELSE /\ returned' = NoCall
          /\ \E raw \in SignerAnswers(op, actualNonce, activeApiKey') :
               LET out == Closure(op, input, raw)
                   signed == [entered EXCEPT
                                !.signs = Append(@, [nonce |-> actualNonce,
                                                     key |-> activeApiKey',
                                                     answer |-> extractStrOrErr(raw),
                                                     request |-> SignRequest(op, input, actualNonce)])]
               IN calls' = [calls EXCEPT ![c] =
                    IF out.kind = "request"
                    THEN [signed EXCEPT !.pc = "sent",
                                        !.sends = Append(@, out.tx_info),
                                        !.tx_types = Append(@, tx_type(op))]
                    ELSE IF out.kind = "l1signed"
                    THEN [signed EXCEPT !.pc = "signing", !.pending = out]
                    ELSE [signed EXCEPT !.pc = "awaiting", !.pending = out]]
  /\ UNCHANGED << initAt, initAnswer, serverNonce, mark >>

\* create_order, its arguments other than nonce and api_key_index left open
StartWrapped(c, op, api_key_index, nonce, switchErr) ==
  StartWrapper(c, op, NoInput, api_key_index, nonce, switchErr)

\* create_sub_account from the signer's answer on, up to its await
BareSignAndSend(call, raw) ==
  LET tx_info == extractStrOrErr(raw) IN
  IF Truthy(tx_info.err)
  THEN [call EXCEPT !.pc = "done",
                    !.result = Tuple(JNull, JNull, tx_info.err)]
  ELSE IF ~Truthy(tx_info.str)
  THEN [call EXCEPT !.pc = "done",
                    !.result = Tuple(JNull, JNull, Str(<<"No transaction info">>))]
  ELSE IF send_tx(tx_info.str.value).kind = "throw"
  THEN [call EXCEPT !.pc = "thrown",
                    !.settled = send_tx(tx_info.str.value),
                    !.result = Thrown(MessageOf(send_tx(tx_info.str.value)))]
  ELSE [call EXCEPT !.pc = "sent",
                    !.sends = Append(@, tx_info.str.value),
                    !.tx_types = Append(@, tx_type(call.op))]

\* create_sub_account after its await of send_tx
BareSettle(call, answer) ==
  IF answer.kind = "throw"
  THEN [call EXCEPT !.pc = "thrown", !.result = Thrown(MessageOf(answer))]
  ELSE IF answer.kind = "value"
  THEN [call EXCEPT !.pc = "done", !.result = answer.result]
  ELSE [call EXCEPT
          !.pc = "done",
          !.result = IF call.op = "change_api_key"
                     THEN ChangeApiKeyResult(answer)
                     ELSE CreateSubAccountResult(call.sends[Len(call.sends)], answer)]

\* A caller invokes create_sub_account(nonce): no wrapper, no slot switch.
StartBare(c, op, nonce) ==
  /\ \E raw \in RawSignResults(nonce, activeApiKey) :
       LET signed == [calls[c] EXCEPT
                        !.op = op, !.nonce = nonce, !.actualNonce = nonce,
                        !.actualApiKeyIndex = activeApiKey,
                        !.signs = Append(@, [nonce |-> nonce,
                                             key |-> activeApiKey,
                                             answer |-> extractStrOrErr(raw)])]
           out == BareSignAndSend(signed, raw)
       IN /\ calls' = [calls EXCEPT ![c] = Kept(out)]
          /\ returned' = Shown(out)
  /\ UNCHANGED << nonces, currentApiKey, initAt, initAnswer, activeApiKey,
                  serverNonce, history, mark >>

StartCall(c) ==
  /\ calls[c].pc = "idle"
  /\ \A d \in Calls : d < c => calls[d].pc /= "idle"
  /\ \/ \E op \in WrappedOps, switchErr \in BOOLEAN :
          \/ StartWrapped(c, op, AUTO, AUTO, switchErr)
          \/ StartWrapped(c, op, StartApiKey, ManualNonce, switchErr)
          \/ StartWrapped(c, op, StartApiKey, AUTO, switchErr)
          \/ StartWrapped(c, op, AUTO, ManualNonce, switchErr)
     \/ \E op \in BareOps, nonce \in {AUTO, ManualNonce} :
          StartBare(c, op, nonce)
  /\ UNCHANGED harness

\* The Exchange handles the sendTx request of call c: it accepts the
\* transaction only when its nonce is the one it expects for the key.
ServerSendTx(c) ==
  LET tx == calls[c].sends[Len(calls[c].sends)][2] IN
  /\ ~MicrotaskPending
  /\ calls[c].pc = "sent"
  /\ calls[c].pending = NoAnswer
  /\ \/ /\ tx.ApiKeyIndex \in Slots
        /\ tx.Nonce = serverNonce[tx.ApiKeyIndex]
        /\ serverNonce' = [serverNonce EXCEPT ![tx.ApiKeyIndex] = @ + 1]
        /\ calls' = [calls EXCEPT ![c].pending = Handled(TRUE)]
     \/ /\ serverNonce' = serverNonce
        /\ calls' = [calls EXCEPT ![c].pending = Handled(FALSE)]
  /\ returned' = NoCall
  /\ UNCHANGED << nonces, currentApiKey, initAt, initAnswer, activeApiKey,
                  history, mark >>
  /\ UNCHANGED harness

\* the wrapper once the promise of "await func(...)" has settled
WrapperSettle(call, ns, answer) ==
  IF answer.kind = "throw"
  THEN CatchBlock(call, ns, answer)
  ELSE TryBody(call, ns,
         IF answer.kind = "value" THEN answer.result
         ELSE ClosureResult(call.op, call.sends[Len(call.sends)], answer))

\* The awaited promise of call c settles and the call resumes.
Resume(c) ==
  LET call == calls[c]
      Settle(answer) ==
        LET out == IF call.op \notin Unwrapped
                   THEN WrapperSettle(call, nonces, answer)
                   ELSE [call |-> BareSettle(call, answer), nonces |-> nonces]
        IN /\ nonces' = out.nonces
           /\ calls' = [calls EXCEPT ![c] = Kept(Settled(out.call, answer))]
           /\ returned' = Shown(Settled(out.call, answer))
           /\ mark' = IF out.call.acks /= call.acks
                         \/ out.call.refreshes /= call.refreshes
                      THEN Marked(mark, call.actualApiKeyIndex)
                      ELSE mark
  IN
  /\ \/ /\ call.pc = "awaiting"
        /\ Settle(call.pending)
     \/ /\ ~MicrotaskPending
        /\ call.pc = "sent"
        /\ call.pending.kind = "handled"
        /\ \E answer \in SendTxAnswers(call.pending.accepted) : Settle(answer)
  /\ UNCHANGED << currentApiKey, initAt, initAnswer, activeApiKey, serverNonce,
                  history >>
  /\ UNCHANGED harness

\* The Exchange answers the nextNonce request of call c's hard refresh.
RefreshServer(c) ==
  /\ ~MicrotaskPending
  /\ calls[c].pc = "refreshing"
  /\ calls[c].fetch = NoAnswer
  /\ calls' = [calls EXCEPT ![c].fetch =
        Fetched(IF calls[c].actualApiKeyIndex \in Slots
                THEN serverNonce[calls[c].actualApiKeyIndex] ELSE 0)]
  /\ returned' = NoCall
  /\ UNCHANGED << nonces, currentApiKey, initAt, initAnswer, activeApiKey,
                  serverNonce, history, mark >>
  /\ UNCHANGED harness

\* hard_refresh_nonce of call c resumes, stores, and the call returns.
RefreshStore(c) ==
  /\ ~MicrotaskPending
  /\ calls[c].pc = "refreshing"
  /\ calls[c].fetch /= NoAnswer
  /\ \E answer \in FetchAnswers(calls[c].fetch.nonce) :
       LET out == CatchAfterRefresh(calls[c], nonces, answer) IN
       /\ nonces' = out.nonces
       /\ calls' = [calls EXCEPT ![c] = Kept(Refetched(out.call, answer))]
       /\ returned' = Shown(Refetched(out.call, answer))
  /\ mark' = Marked(mark, calls[c].actualApiKeyIndex)
  /\ UNCHANGED << currentApiKey, initAt, initAnswer, activeApiKey, serverNonce,
                  history >>
  /\ UNCHANGED harness

Next ==
  \/ InitServer
  \/ InitStore
  \/ \E c \in Calls : StartCall(c)
  \/ \E c \in Calls : ServerSendTx(c)
  \/ \E c \in Calls : Resume(c)
  \/ \E c \in Calls : RefreshServer(c)
  \/ \E c \in Calls : RefreshStore(c)

Spec == Init /\ [][Next]_vars

\* ------------------------------------------------------------ unit harness
\* SignerClient.get_api_key_nonce on a client whose first slot is
\* StartApiKey and whose last slot is endApiKey
get_api_key_nonce(api_key_index, nonce, ns, cur) ==
  IF api_key_index /= AUTO /\ nonce /= AUTO
  THEN [ kind |-> "pair", apiKeyIndex |-> api_key_index, nonce |-> nonce,
         nonces |-> ns, currentApiKey |-> cur, called |-> FALSE ]
  ELSE IF nonce /= AUTO /\ StartApiKey /= endApiKey
  THEN [ kind |-> "throw", message |-> <<"ambiguous api key">>,
         nonces |-> ns, currentApiKey |-> cur, called |-> FALSE ]
  ELSE [ kind |-> "pair",
         apiKeyIndex |-> next_nonce(ns, cur).apiKeyIndex,
         nonce |-> next_nonce(ns, cur).nonce,
         nonces |-> next_nonce(ns, cur).nonces,
         currentApiKey |-> next_nonce(ns, cur).currentApiKey,
         called |-> TRUE ]

\* the slot and nonce of a resolution, or that it threw
Outcome(r) ==
  IF r.kind = "throw"
  THEN [kind |-> "throw", message |-> r.message]
  ELSE [kind |-> "pair", apiKeyIndex |-> r.apiKeyIndex, nonce |-> r.nonce]

OwnedSlots == StartApiKey..endApiKey
ResolutionSlots == {AUTO, StartApiKey, LastApiKey}
ResolutionNonces == {AUTO, ManualNonce}
ServerReports == {0, InitialServerNonce + 1}

\* the harness remembers the last two operations
Remember(op) ==
  IF Len(recent) < 2 THEN Append(recent, op) ELSE << recent[2], op >>

\* A freshly constructed client that owns StartApiKey..endApiKey.
UnitInit ==
  /\ endApiKey \in StartApiKey..LastApiKey
  /\ nonces = [i \in OwnedSlots |-> 0]
  /\ currentApiKey = StartApiKey
  /\ initAt = StartApiKey
  /\ initAnswer = NoAnswer
  /\ activeApiKey = StartApiKey
  /\ serverNonce = [i \in OwnedSlots |-> InitialServerNonce]
  /\ calls = [c \in Calls |-> IdleCall]
  /\ returned = NoCall
  /\ history = [i \in OwnedSlots |-> <<>>]
  /\ mark = [i \in OwnedSlots |-> 0]
  /\ recent = <<>>
  /\ issued = 0
  /\ opsDone = 0
  /\ built = NoConstruction
  /\ rollup = [storage |-> Deployed, call |-> NoRollupCall]

client == << initAt, initAnswer, activeApiKey, serverNonce, calls, returned,
             history, mark, endApiKey, built, rollup >>

\* nonce_manager.next_nonce()
UnitNextNonce ==
  /\ opsDone < MaxOps
  /\ nonces' = next_nonce(nonces, currentApiKey).nonces
  /\ currentApiKey' = next_nonce(nonces, currentApiKey).currentApiKey
  /\ recent' = Remember(
       [ op |-> "next_nonce",
         index |-> issued,
         slot |-> next_nonce(nonces, currentApiKey).apiKeyIndex,
         nonce |-> next_nonce(nonces, currentApiKey).nonce,
         before |-> MapGet(nonces, currentApiKey),
         answered |-> (initAnswer /= NoAnswer /\ initAt = currentApiKey) ])
  /\ issued' = issued + 1
  /\ opsDone' = opsDone + 1
  /\ UNCHANGED client

\* nonce_manager.acknowledge_failure(k)
UnitAcknowledgeFailure(k) ==
  /\ opsDone < MaxOps
  /\ k \in OwnedSlots
  /\ nonces' = acknowledge_failure(nonces, k)
  /\ recent' = Remember(
       [ op |-> "acknowledge_failure", slot |-> k,
         before |-> MapGet(nonces, k) ])
  /\ opsDone' = opsDone + 1
  /\ UNCHANGED << currentApiKey, issued, client >>

\* nonce_manager.hard_refresh_nonce(k), the Exchange reporting nonce n (or no
\* nonce, or failing)
UnitHardRefresh(k, n) ==
  /\ opsDone < MaxOps
  /\ k \in OwnedSlots
  /\ \E answer \in FetchAnswers(n) :
       /\ nonces' = hard_refresh_nonce(nonces, k, answer)
       /\ recent' = Remember(
            [ op |-> "hard_refresh_nonce", slot |-> k, answer |-> answer,
              before |-> MapGet(nonces, k) ])
  /\ opsDone' = opsDone + 1
  /\ UNCHANGED << currentApiKey, issued, client >>

\* client.get_api_key_nonce(api_key_index, nonce)
UnitGetApiKeyNonce(api_key_index, nonce) ==
  LET r == get_api_key_nonce(api_key_index, nonce, nonces, currentApiKey) IN
  /\ opsDone < MaxOps
  /\ nonces' = r.nonces
  /\ currentApiKey' = r.currentApiKey
  /\ recent' = Remember(
       [ op |-> "get_api_key_nonce",
         api_key_index |-> api_key_index, nonce |-> nonce,
         index |-> issued,
         out |-> Outcome(r),
         cur |-> currentApiKey,
         before |-> MapGet(nonces, currentApiKey) ])
  /\ issued' = IF r.called THEN issued + 1 ELSE issued
  /\ opsDone' = opsDone + 1
  /\ UNCHANGED client

\* the first lines of process_api_key_and_nonce(func, api_key_index, nonce);
\* "policy" is what get_api_key_nonce yields for the same input and state
UnitWrapperResolution(api_key_index, nonce) ==
  LET r == WrapperResolution(api_key_index, nonce, nonces, currentApiKey) IN
  /\ opsDone < MaxOps
  /\ nonces' = r.nonces
  /\ currentApiKey' = r.currentApiKey
  /\ recent' = Remember(
       [ op |-> "process_api_key_and_nonce",
         api_key_index |-> api_key_index, nonce |-> nonce,
         index |-> issued,
         out |-> [kind |-> "pair", apiKeyIndex |-> r.apiKeyIndex,
                  nonce |-> r.nonce],
         policy |-> Outcome(get_api_key_nonce(api_key_index, nonce, nonces,
                                              currentApiKey)),
         cur |-> currentApiKey,
         before |-> MapGet(nonces, currentApiKey) ])
  /\ issued' = IF r.called THEN issued + 1 ELSE issued
  /\ opsDone' = opsDone + 1
  /\ UNCHANGED client

UnitNext ==
  \/ UnitNextNonce
  \/ \E k \in StartApiKey..LastApiKey : UnitAcknowledgeFailure(k)
  \/ \E k \in StartApiKey..LastApiKey, n \in ServerReports : UnitHardRefresh(k, n)
  \/ \E a \in ResolutionSlots, n \in ResolutionNonces : UnitGetApiKeyNonce(a, n)
  \/ \E a \in ResolutionSlots, n \in ResolutionNonces : UnitWrapperResolution(a, n)

UnitSpec == UnitInit /\ [][UnitNext]_vars

\* ------------------------------------------------------------ construction
\* Strings are sequences of tokens; the prefix "0x" is one token.
HexPrefix == "0x"
PrimaryKey == <<"aa">>
OtherKey == <<"bb">>
PrefixedPrimaryKey == << HexPrefix >> \o PrimaryKey
Testnet == <<"https://", "testnet", ".zklighter.elliot.ai">>
Mainnet == <<"https://", "mainnet", ".zklighter.elliot.ai">>
\* a base URL that names neither network
Localhost == <<"http://", "localhost">>
CreateClientError == <<"invalid", SP, "key">>

\* new Error(text), thrown
Throw(text) == [kind |-> "throw", message |-> [text |-> text]]
\* `missing ${api_key} private key!`
ThrowMissing(api_key) ==
  [kind |-> "throw", message |-> [text |-> "missing private key!", api_key |-> api_key]]
\* `Unsupported nonce manager type: ${nonce_manager_type}`
ThrowUnsupported(nonce_manager_type) ==
  [ kind |-> "throw",
    message |-> [text |-> "Unsupported nonce manager type", type |-> nonce_manager_type] ]
\* undefined.startsWith
ThrowTypeError == [kind |-> "throw", message |-> [text |-> "TypeError"]]
Pass == [kind |-> "pass"]

\* private_key.startsWith("0x") ? private_key.slice(2) : private_key
Strip0x(key) == IF key /= <<>> /\ Head(key) = HexPrefix THEN Tail(key) ELSE key

chain_id_testnet(url) == 300

\* url.includes("mainnet") ? 304 : 300
chain_id(url) == IF Includes(url, "mainnet") THEN 304 ELSE 300

are_keys_equal(key1, key2) == Strip0x(key1) = Strip0x(key2)

\* private_keys is an object: its keys are DOMAIN private_keys
validate_api_private_keys(initial_private_key, private_keys, start, end) ==
  IF Cardinality(DOMAIN private_keys) = end - start + 1
  THEN IF start \notin DOMAIN private_keys
       THEN ThrowTypeError
       ELSE IF ~are_keys_equal(private_keys[start], initial_private_key)
            THEN Throw("inconsistent private keys")
            ELSE Pass
  ELSE IF Cardinality(DOMAIN private_keys) /= end - start
       THEN Throw("unexpected number of private keys")
       ELSE LET absent == { k \in (start + 1)..(end - 1) : k \notin DOMAIN private_keys }
            IN IF absent /= {}
               THEN ThrowMissing(CHOOSE k \in absent : \A j \in absent : k <= j)
               ELSE Pass

build_api_key_dict(private_key, private_keys, start, end) ==
  IF Cardinality(DOMAIN private_keys) = end - start
  THEN [ k \in (DOMAIN private_keys) \cup {start} |->
           IF k = start THEN private_key ELSE private_keys[k] ]
  ELSE private_keys

\* mutant: an unsupported type falls back to the optimistic manager
nonce_manager_factory_fallback(nonce_manager_type) ==
  [kind |-> "manager"]

nonce_manager_factory(nonce_manager_type) ==
  IF nonce_manager_type = "optimistic"
  THEN [kind |-> "manager"]
  ELSE ThrowUnsupported(nonce_manager_type)

\* the arguments create_client hands to signer.CreateClient for keyIndex
create_client(url, api_key_dict, keyIndex, account_index) ==
  [ url |-> url,
    apiKey |-> IF keyIndex \in DOMAIN api_key_dict
               THEN Str(api_key_dict[keyIndex]) ELSE JUndefined,
    chain_id |-> chain_id(url),
    keyIndex |-> keyIndex,
    account_index |-> account_index ]

\* The constructor's loop over api_key_index..end_api_key_index: the calls
\* of CreateClient it makes when the signer reports an error first at slot
\* failAt (at no slot if failAt lies past the last one), and that error.
CreateClients(url, api_key_dict, start, end, account_index, failAt) ==
  LET last == IF failAt \in start..end THEN failAt ELSE end
  IN [ calls |-> [ i \in 1..(last - start + 1) |->
                     create_client(url, api_key_dict, start + i - 1, account_index) ],
       err |-> IF failAt \in start..end THEN Str(CreateClientError) ELSE JNull ]

KeySlots == StartApiKey..(LastApiKey + 1)
PrimaryKeys == { PrimaryKey, PrefixedPrimaryKey }
ManagerTypes == { "optimistic", "pessimistic" }
\* the private_keys options tried: any set of slots, one past the largest
\* range included; the first slot's entry is the primary key, with or
\* without prefix, or another key
KeyMaps ==
  { m \in UNION { [D -> {PrimaryKey, PrefixedPrimaryKey, OtherKey}] : D \in SUBSET KeySlots } :
      \A k \in DOMAIN m : k /= StartApiKey => m[k] = OtherKey }

\* Before new SignerClient(...): no manager, no slot owned.
ConstructInit ==
  /\ nonces = [i \in {} |-> 0]
  /\ currentApiKey = StartApiKey
  /\ initAt = StartApiKey
  /\ initAnswer = NoAnswer
  /\ activeApiKey = StartApiKey
  /\ serverNonce = [i \in StartApiKey..LastApiKey |-> InitialServerNonce]
  /\ calls = [c \in Calls |-> IdleCall]
  /\ returned = NoCall
  /\ history = [i \in StartApiKey..LastApiKey |-> <<>>]
  /\ mark = [i \in StartApiKey..LastApiKey |-> 0]
  /\ endApiKey = StartApiKey - 1
  /\ recent = <<>>
  /\ issued = 0
  /\ opsDone = 0
  /\ built = NoConstruction
  /\ rollup = [storage |-> Deployed, call |-> NoRollupCall]

\* new SignerClient(url, private_key, StartApiKey, AccountIndex,
\*   { max_api_key_index, private_keys, nonce_management_type })
Construct(url, private_key, max_api_key_index, private_keys, nonce_management_type, failAt) ==
  LET key == Strip0x(private_key)
      end == IF max_api_key_index = AUTO THEN StartApiKey ELSE max_api_key_index
      checked == validate_api_private_keys(key, private_keys, StartApiKey, end)
      dict == build_api_key_dict(key, private_keys, StartApiKey, end)
      made == nonce_manager_factory(nonce_management_type)
      loop == CreateClients(url, dict, StartApiKey, end, AccountIndex, failAt)
      call == [ url |-> url, private_key |-> private_key,
                private_keys |-> private_keys, end |-> end,
                nonce_management_type |-> nonce_management_type ]
  IN /\ IF checked.kind = "throw" \/ made.kind = "throw"
        THEN /\ built' = [ status |-> "thrown", call |-> call,
                           chain_id |-> chain_id(url),
                           error |-> IF checked.kind = "throw"
                                     THEN checked.message ELSE made.message,
                           api_key_dict |-> IF checked.kind = "throw" THEN <<>> ELSE dict,
                           manager |-> FALSE, created |-> <<>> ]
             /\ UNCHANGED << nonces, currentApiKey, initAt, initAnswer,
                             activeApiKey, endApiKey >>
        ELSE /\ nonces' = [i \in StartApiKey..end |-> 0]
             /\ currentApiKey' = StartApiKey
             /\ endApiKey' = end
             /\ initAt' = StartApiKey
             /\ initAnswer' = NoAnswer
             /\ activeApiKey' = loop.calls[Len(loop.calls)].keyIndex
             /\ built' = [ status |-> IF Truthy(loop.err) THEN "thrown" ELSE "constructed",
                           call |-> call,
                           chain_id |-> chain_id(url),
                           error |-> IF Truthy(loop.err)
                                     THEN [text |-> loop.err.value] ELSE [text |-> "none"],
                           api_key_dict |-> dict,
                           manager |-> TRUE, created |-> loop.calls ]
     /\ UNCHANGED << serverNonce, calls, returned, history, mark,
                     recent, issued, opsDone, rollup >>

\* initialize() resumes, seen from outside: the answer and the counter before
InitStoreSeen ==
  /\ initAnswer /= NoAnswer
  /\ \E answer \in FetchAnswers(initAnswer.nonce) :
       /\ InitResume(answer)
       /\ recent' = Remember(
            [ op |-> "initialize", slot |-> initAt, answer |-> answer,
              before |-> MapGet(nonces, initAt) ])
  /\ UNCHANGED << endApiKey, issued, opsDone, built, rollup >>

\* the caller uses the client it was handed while initialize() is running
WindowNextNonce ==
  /\ built.status = "constructed"
  /\ UnitNextNonce

\* the one constructor call of a behaviour, its arguments and the answers
\* of the native signer open
Constructor ==
  /\ built = NoConstruction
  /\ \E url \in {Testnet, Mainnet, Localhost}, private_key \in PrimaryKeys,
        max_api_key_index \in {AUTO} \cup (StartApiKey..LastApiKey),
        private_keys \in KeyMaps, nonce_management_type \in ManagerTypes,
        failAt \in StartApiKey..(LastApiKey + 1) :
       Construct(url, private_key, max_api_key_index, private_keys,
                 nonce_management_type, failAt)

CheckClientError == <<"api", SP, "key", SP, "mismatch">>

\* `${result} on api key ${api_key}`
OnApiKey(result, api_key) ==
  [kind |-> "message", error |-> result, api_key |-> api_key]

\* check_client(): the calls of CheckClient its loop makes when the signer
\* reports an error first at slot failAt (at no slot if failAt lies past the
\* last one) and answers ok (null or the empty string) for the slots before
\* it, and what check_client returns
check_client(start, end, account_index, failAt, ok) ==
  LET last == IF failAt \in start..end THEN failAt ELSE end
  IN [ checks |-> [ i \in 1..(last - start + 1) |->
                      [api_key |-> start + i - 1, account_index |-> account_index] ],
       result |-> IF failAt \in start..end
                  THEN OnApiKey(Str(CheckClientError), start)
                  ELSE OrElse(ok, JNull) ]

\* the caller checks the client it was handed, before it takes nonces from it
CheckClient ==
  /\ built.status = "constructed"
  /\ opsDone = 0
  /\ \E failAt \in StartApiKey..(endApiKey + 1), ok \in {JNull, Str(<<>>)} :
       recent' = Remember(
         [ op |-> "check_client", failAt |-> failAt,
           checks |-> check_client(StartApiKey, endApiKey, AccountIndex, failAt, ok).checks,
           result |-> check_client(StartApiKey, endApiKey, AccountIndex, failAt, ok).result ])
  /\ opsDone' = opsDone + 1
  /\ UNCHANGED << nonces, currentApiKey, initAt, initAnswer, activeApiKey,
                  serverNonce, calls, returned, history, mark, endApiKey,
                  issued, built, rollup >>

ConstructNext ==
  \/ Constructor
  \/ CheckClient
  \/ InitServer
  \/ InitStoreSeen
  \/ WindowNextNonce

ConstructSpec == ConstructInit /\ [][ConstructNext]_vars

\* ----------------------------------------------------------- method harness
\* The other methods of SignerClient, invoked one at a time: the caller
\* awaits each before it makes the next call, MethodCalls calls in all.
CanStart(c) ==
  /\ c <= MethodCalls
  /\ calls[c].pc = "idle"
  /\ \A d \in Calls : calls[d].pc \in {"idle", "over"}
  /\ \A d \in Calls : d < c => calls[d].pc /= "idle"

MarketOrderArgs ==
  { [base_amount |-> 1, avg_execution_price |-> 100, is_ask |-> TRUE],
    [base_amount |-> 2, avg_execution_price |-> 120, is_ask |-> FALSE] }

LeverageArgs ==
  { [market_index |-> 2, margin_mode |-> m, leverage |-> l] :
      m \in {CROSS_MARGIN_MODE, ISOLATED_MARGIN_MODE}, l \in 1..MaxLeverage }

SlippageArgs ==
  { [base_amount |-> b, max_slippage |-> 5, is_ask |-> a, ideal_price |-> i] :
      b \in 1..MaxBaseAmount, a \in BOOLEAN, i \in {JUndefined, Num(100)} }

\* the side of the book orderBookOrders reports, or its failure
BookAnswers ==
  { [kind |-> "error"],
    [kind |-> "data", orders |-> <<>>],
    [kind |-> "data", orders |-> << Level(100, 1) >>],
    [kind |-> "data", orders |-> << Level(100, 1), Level(90, 1) >>],
    [kind |-> "data", orders |-> << Level(100, 1), Level(80, 1) >>],
    [kind |-> "data", orders |-> << Level(100, 1), Level(120, 1) >>],
    [kind |-> "data", orders |-> << Level(100, 1), Level(105, 2) >>] }

\* create_market_order(..., nonce = -1, api_key_index = -1)
StartMarketOrder(c) ==
  /\ CanStart(c)
  /\ \E args \in MarketOrderArgs, switchErr \in BOOLEAN :
       StartWrapper(c, "create_market_order", args, AUTO, AUTO, switchErr)
  /\ UNCHANGED harness

\* update_leverage(market_index, margin_mode, leverage)
StartUpdateLeverage(c) ==
  /\ CanStart(c)
  /\ \E args \in LeverageArgs, switchErr \in BOOLEAN :
       StartWrapper(c, "update_leverage", args, AUTO, AUTO, switchErr)
  /\ UNCHANGED harness

\* transfer(eth_private_key, ...)
StartTransfer(c) ==
  /\ CanStart(c)
  /\ \E eth_private_key \in {OwnerKey, BadOwnerKey}, switchErr \in BOOLEAN :
       StartWrapper(c, "transfer", [eth_private_key |-> eth_private_key],
                    AUTO, AUTO, switchErr)
  /\ UNCHANGED harness

\* change_api_key(eth_private_key, new_pubkey, nonce): no wrapper
StartChangeApiKey(c) ==
  /\ CanStart(c)
  /\ \E eth_private_key \in {OwnerKey, BadOwnerKey}, nonce \in {AUTO, ManualNonce} :
     \E raw \in L1RawSignResults(nonce, activeApiKey) :
       LET input == [eth_private_key |-> eth_private_key]
           out == ChangeApiKeySign(input, raw)
           signed == [calls[c] EXCEPT
                        !.op = "change_api_key", !.input = input,
                        !.nonce = nonce, !.actualNonce = nonce,
                        !.actualApiKeyIndex = activeApiKey,
                        !.signs = Append(@, [nonce |-> nonce,
                                             key |-> activeApiKey,
                                             answer |-> extractStrOrErr(raw),
                                             request |-> [fn |-> "SignChangePubKey",
                                                          nonce |-> nonce]])]
       IN calls' = [calls EXCEPT ![c] =
            [signed EXCEPT !.pc = IF out.kind = "l1signed" THEN "signing" ELSE "awaiting",
                           !.pending = out]]
  /\ returned' = NoCall
  /\ UNCHANGED << nonces, currentApiKey, initAt, initAnswer, activeApiKey,
                  serverNonce, history, mark >>
  /\ UNCHANGED harness

\* sign_transfer or sign_change_api_key resumes with the signature: the
\* method goes on to send_tx
L1Continue(c) ==
  LET out == send_tx(calls[c].pending.tx_info) IN
  /\ calls[c].pc = "signing"
  /\ calls' = [calls EXCEPT ![c] =
       IF out.kind = "request"
       THEN [@ EXCEPT !.pc = "sent", !.pending = NoAnswer,
                      !.sends = Append(@, out.tx_info),
                      !.tx_types = Append(@, tx_type(calls[c].op))]
       ELSE [@ EXCEPT !.pc = "awaiting", !.pending = out]]
  /\ returned' = NoCall
  /\ UNCHANGED << nonces, currentApiKey, initAt, initAnswer, activeApiKey,
                  serverNonce, history, mark >>
  /\ UNCHANGED harness

\* create_market_order_if_slippage(...) up to its await of orderBookOrders
StartIfSlippage(c) ==
  /\ CanStart(c)
  /\ \E args \in SlippageArgs :
       calls' = [calls EXCEPT ![c] =
         [@ EXCEPT !.pc = "quoting", !.op = "create_market_order_if_slippage",
                   !.input = [args |-> args, book |-> NoInput]]]
  /\ returned' = NoCall
  /\ UNCHANGED << nonces, currentApiKey, initAt, initAnswer, activeApiKey,
                  serverNonce, history, mark >>
  /\ UNCHANGED harness

\* orderBookOrders has answered: create_market_order_if_slippage resumes and
\* throws, returns an error, or calls create_order
BookAnswer(c) ==
  /\ ~MicrotaskPending
  /\ calls[c].pc = "quoting"
  /\ \E book \in BookAnswers :
       LET input == [calls[c].input EXCEPT !.book = book]
           out == create_market_order_if_slippage(input.args, book)
           over == [calls[c] EXCEPT
                      !.input = input,
                      !.pc = IF out.kind = "throw" THEN "thrown" ELSE "done",
                      !.result = IF out.kind = "throw"
                                 THEN Thrown(out.message) ELSE out.result]
       IN IF out.kind = "order"
          THEN \E switchErr \in BOOLEAN :
                 StartWrapper(c, "create_market_order_if_slippage", input,
                              AUTO, AUTO, switchErr)
          ELSE /\ calls' = [calls EXCEPT ![c] = OverCall]
               /\ returned' = over
               /\ UNCHANGED << nonces, currentApiKey, initAt, initAnswer,
                               activeApiKey, serverNonce, history, mark >>
  /\ UNCHANGED harness

\* one of the methods of PlainOps(..., nonce = -1, api_key_index = -1)
StartPlain(c) ==
  /\ CanStart(c)
  /\ \E op \in PlainOps, switchErr \in BOOLEAN :
       StartWrapper(c, op, NoInput, AUTO, AUTO, switchErr)
  /\ UNCHANGED harness

\* create_order(..., nonce = -1, api_key_index = -1)
StartCreateOrder(c) ==
  /\ CanStart(c)
  /\ \E switchErr \in BOOLEAN :
       StartWrapped(c, "create_order", AUTO, AUTO, switchErr)
  /\ UNCHANGED harness

\* create_sub_account(nonce)
StartSubAccount(c) ==
  /\ CanStart(c)
  /\ \E nonce \in {AUTO, ManualNonce} : StartBare(c, "create_sub_account", nonce)
  /\ UNCHANGED harness

MethodNext ==
  \/ InitServer
  \/ InitStore
  \/ \E c \in Calls : StartPlain(c)
  \/ \E c \in Calls : StartCreateOrder(c)
  \/ \E c \in Calls : StartSubAccount(c)
  \/ \E c \in Calls : StartMarketOrder(c)
  \/ \E c \in Calls : StartUpdateLeverage(c)
  \/ \E c \in Calls : StartTransfer(c)
  \/ \E c \in Calls : StartChangeApiKey(c)
  \/ \E c \in Calls : StartIfSlippage(c)
  \/ \E c \in Calls : BookAnswer(c)
  \/ \E c \in Calls : L1Continue(c)
  \/ \E c \in Calls : ServerSendTx(c)
  \/ \E c \in Calls : Resume(c)
  \/ \E c \in Calls : RefreshServer(c)
  \/ \E c \in Calls : RefreshStore(c)

MethodSpec == Init /\ [][MethodNext]_vars

\* -------------------------------------------------------- rollup harness
\* what the batch calls leave alone: the SDK client
sdk == << nonces, currentApiKey, initAt, initAnswer, activeApiKey,
          serverNonce, calls, returned, history, mark,
          endApiKey, recent, issued, opsDone, built >>

\* the batches the contract holds a hash of
Known(s) ==
  { s.storedBatchHashes[n].of :
      n \in { m \in DOMAIN s.storedBatchHashes : s.storedBatchHashes[m] /= ZeroHash } }

\* the batches a caller passes: those stored, and forgeries of them under
\* another number
Candidates(s) ==
  Known(s) \cup { [b EXCEPT !.batchNumber = n] : b \in Known(s), n \in 1..MaxBatches }

\* the arrays of up to n batches a caller passes
Arrays(S, n) == UNION { [1..k -> S] : k \in 0..n }

\* a call went through: the storage it leaves, and the call on record
Through(out, fn, batches) ==
  /\ out.kind = "ok"
  /\ rollup' = [storage |-> out.state, call |-> [fn |-> fn, batches |-> batches]]
  /\ UNCHANGED sdk

\* a deposit or another priority operation registers a priority request
AddPriorityRequest ==
  /\ rollup.storage.executedPriorityRequestCount
       + rollup.storage.openPriorityRequestCount < MaxPriorityRequests
  /\ Through(Done(addPriorityRequest(rollup.storage)), "addPriorityRequest", <<>>)

CommitBatch ==
  /\ rollup.storage.committedBatchesCount < MaxBatches
  /\ \E lastStoredBatch \in Known(rollup.storage),
        endBlockNumber \in 0..MaxBatches, batchSize \in {0, 1},
        priorityRequestCount \in 0..MaxPriorityRequests,
        onChainOperationsHash \in {0, 1}, newStateRoot \in StateRoots,
        isValidator \in BOOLEAN, checksPass \in BOOLEAN :
       Through(
         commitBatch(rollup.storage,
                     [ endBlockNumber |-> endBlockNumber, batchSize |-> batchSize,
                       priorityRequestCount |-> priorityRequestCount,
                       onChainOperationsHash |-> onChainOperationsHash,
                       newStateRoot |-> newStateRoot ],
                     lastStoredBatch, isValidator, checksPass),
         "commitBatch", << lastStoredBatch >>)

VerifyBatch ==
  \E batch \in Candidates(rollup.storage), proofOk \in BOOLEAN,
     isValidator \in BOOLEAN :
    Through(verifyBatch(rollup.storage, batch, proofOk, isValidator),
            "verifyBatch", << batch >>)

ExecuteBatches ==
  \E batches \in Arrays(Known(rollup.storage), MaxExecute),
     onChainOperationsPubData \in Arrays(BOOLEAN, MaxExecute) :
    Through(executeBatches(rollup.storage, batches, onChainOperationsPubData),
            "executeBatches", batches)

RevertBatches ==
  \E batchesToRevert \in Arrays(Known(rollup.storage), MaxRevert),
     remainingBatch \in Known(rollup.storage), isValidator \in BOOLEAN :
    Through(revertBatches(rollup.storage, batchesToRevert, remainingBatch, isValidator),
            "revertBatches", batchesToRevert)

RollupNext ==
  \/ AddPriorityRequest
  \/ CommitBatch
  \/ VerifyBatch
  \/ ExecuteBatches
  \/ RevertBatches

RollupSpec == Init /\ [][RollupNext]_vars

\* ------------------------------------------------------------------ claims
\* the nonces next_nonce returned for slot k since the last rollback, hard
\* refresh or initialize store on k
Window(k) == SubSeq(history[k], mark[k] + 1, Len(history[k]))

\* call c holds a reservation whose outcome is not known yet
Unresolved(c) ==
  /\ calls[c].auto
  /\ calls[c].pc \in {"awaiting", "sent"}

\* the answer is a 400 rejection whose message speaks of an invalid nonce
InvalidNonceRejection(answer) ==
  /\ answer.kind = "throw"
  /\ answer.status = HTTP_BAD_REQUEST
  /\ answer.message.kind = "str"
  /\ \E i \in 1..Len(answer.message.value) : answer.message.value[i] = INVALID_NONCE

\* e is the last line of m, the white space around m left out
LastLineOf(e, m) ==
  /\ \A i \in 1..Len(e) : e[i] /= NL
  /\ \E k \in 0..Len(m) :
       /\ k + Len(e) <= Len(m)
       /\ e = SubSeq(m, k + 1, k + Len(e))
       /\ \A i \in (k + Len(e) + 1)..Len(m) : IsSpace(m[i])
       /\ \/ k = 0
          \/ m[k] = NL
          \/ \A i \in 1..k : IsSpace(m[i])
       /\ e /= <<>> => ~IsSpace(e[Len(e)])

\* C1 (as claimed): under any interleaving of concurrent auto-managed calls,
\* calls that fail included, no two next_nonce() calls on the same slot
\* return the same nonce.
C1_NoNonceReturnedTwice ==
  \A k \in Slots : \A i, j \in 1..Len(history[k]) :
    i /= j => history[k][i] /= history[k][j]

\* C1 (amended): no two next_nonce() calls on the same slot return the same
\* nonce unless an acknowledge_failure, a hard_refresh_nonce or an
\* initialize store on that slot took place between the two.
C1_DistinctSinceReset ==
  \A k \in Slots : \A i, j \in 1..Len(Window(k)) :
    i /= j => Window(k)[i] /= Window(k)[j]

\* two concurrent calls hold nonces of one slot, nothing having reset it
C1_Witness ==
  \E k \in Slots : \E c, d \in Calls :
    /\ c /= d
    /\ Unresolved(c) /\ calls[c].actualApiKeyIndex = k
    /\ Unresolved(d) /\ calls[d].actualApiKeyIndex = k
    /\ Len(Window(k)) >= 2

\* C2: N next_nonce() calls that select one slot, with no acknowledge_failure,
\* hard_refresh_nonce or initialize store on it in between, return nonces
\* each exactly one greater than the one before (so pairwise distinct).
C2_ConsecutiveSinceReset ==
  \A k \in Slots : \A i \in 1..Len(Window(k)) :
    i > 1 => Window(k)[i] = Window(k)[i - 1] + 1

\* a slot has handed out two nonces in a row, the second after initialize
\* stored the server's nonce
C2_Witness ==
  \E k \in Slots :
    /\ Len(Window(k)) = 2
    /\ Window(k)[1] = InitialServerNonce
    /\ Window(k)[2] = InitialServerNonce + 1

\* C3 (as claimed): for every slot at most one reservation issued by
\* next_nonce() is in flight; a second one is never issued while the first
\* is unresolved.
C3_AtMostOneInFlight ==
  \A k \in Slots :
    Cardinality({c \in Calls : Unresolved(c) /\ calls[c].actualApiKeyIndex = k}) <= 1

\* C3 (amended): several reservations of one slot may be in flight at once,
\* one per concurrent call; those issued since the last rollback, hard
\* refresh or initialize store on the slot carry pairwise distinct nonces,
\* each below the slot's counter.
C3_InFlightDistinct ==
  \A c \in Calls :
    (Unresolved(c) /\ calls[c].pos > mark[calls[c].actualApiKeyIndex]) =>
      /\ calls[c].actualNonce < MapGet(nonces, calls[c].actualApiKeyIndex)
      /\ \A d \in Calls :
           ( /\ d /= c
             /\ Unresolved(d)
             /\ calls[d].actualApiKeyIndex = calls[c].actualApiKeyIndex
             /\ calls[d].pos > mark[calls[d].actualApiKeyIndex] )
           => calls[d].actualNonce /= calls[c].actualNonce

\* two reservations of one slot are in flight, both sent to the Exchange
C3_Witness ==
  \E c, d \in Calls :
    /\ c /= d
    /\ Unresolved(c) /\ Unresolved(d)
    /\ calls[c].pc = "sent" /\ calls[d].pc = "sent"
    /\ calls[c].actualApiKeyIndex = calls[d].actualApiKeyIndex
    /\ calls[c].pos > mark[calls[c].actualApiKeyIndex]
    /\ calls[d].pos > mark[calls[d].actualApiKeyIndex]

\* C5: a wrapped operation whose submission is rejected with HTTP 400 and an
\* invalid-nonce message calls hard_refresh_nonce once, for the slot used,
\* never acknowledge_failure, and returns the error normalized to one line.
C5_InvalidNonceRefreshes ==
  /\ \A c \in Calls :
       (calls[c].op \in WrappedOps /\ InvalidNonceRejection(calls[c].settled)) =>
         /\ calls[c].pc = "refreshing"
         /\ calls[c].refreshes = << calls[c].actualApiKeyIndex >>
         /\ calls[c].acks = <<>>
  /\ (returned.op \in WrappedOps /\ InvalidNonceRejection(returned.settled)) =>
         /\ returned.pc = "done"
         /\ returned.refreshes = << returned.actualApiKeyIndex >>
         /\ returned.acks = <<>>
         /\ returned.result.kind = "tuple"
         /\ returned.result.tx = JNull
         /\ returned.result.resp = JNull
         /\ returned.result.err.kind = "str"
         /\ LastLineOf(returned.result.err.value, returned.settled.message.value)

\* an auto-managed call returns after an invalid-nonce rejection
C5_Witness ==
  /\ returned.op \in WrappedOps
  /\ returned.auto
  /\ InvalidNonceRejection(returned.settled)
  /\ returned.pc = "done"

\* what made a wrapped call fail, the nonce mismatch apart: the signer gave
\* an error or no payload, or the submission failed
OtherFailure(call) ==
  \/ /\ call.settled.kind = "value"
     /\ call.settled.result.resp = JNull
  \/ /\ call.settled.kind = "throw"
     /\ ~InvalidNonceRejection(call.settled)
  \/ /\ call.settled.kind = "data"
     /\ call.settled.code /= CODE_OK

\* C6 (as claimed): a wrapped operation that fails because the signer
\* returns an error, or because the submission fails for another reason
\* than a nonce mismatch, calls acknowledge_failure once for the slot used,
\* never hard_refresh_nonce, and returns a non-null error string.
C6_FailureAcknowledged ==
  (returned.op \in WrappedOps /\ OtherFailure(returned)) =>
    /\ returned.pc = "done"
    /\ returned.acks = << returned.actualApiKeyIndex >>
    /\ returned.refreshes = <<>>
    /\ returned.result.kind = "tuple"
    /\ returned.result.err /= JNull

Undisturbed(call) ==
  /\ Len(history[call.actualApiKeyIndex]) = call.pos
  /\ mark[call.actualApiKeyIndex] < call.pos

C8_NonSuccessCodeIsError ==
  ( /\ returned.op \in WrappedOps
    /\ returned.auto
    /\ returned.settled.kind = "data"
    /\ returned.settled.code /= CODE_OK ) =>
    /\ returned.pc = "done"
    /\ returned.acks = << returned.actualApiKeyIndex >>
    /\ returned.result.kind = "tuple"
    /\ returned.result.err /= JNull

\* C9 (as claimed): no per-operation method throws a transport failure, an
\* error the Exchange reports or a malformed signed payload: it returns with
\* the failure in its error element.
C9_SubmissionFailureReturned ==
  ( \/ returned.settled.kind = "throw"
    \/ /\ returned.settled.kind = "data"
       /\ returned.settled.code /= CODE_OK ) =>
    /\ returned.pc = "done"
    /\ returned.result.kind = "tuple"
    /\ returned.result.err /= JNull

\* C10: one invocation signs at most once and calls sendTx at most once;
\* after an invalid-nonce rejection it refreshes and returns the error
\* without signing or submitting again.
C10_NoRetry ==
  /\ \A c \in Calls :
       /\ Len(calls[c].signs) <= 1
       /\ Len(calls[c].sends) <= 1
  /\ Len(returned.signs) <= 1
  /\ Len(returned.sends) <= 1
  /\ returned.refreshes /= <<>> =>
       /\ returned.pc = "done"
       /\ returned.result.kind = "tuple"
       /\ returned.result.err /= JNull

\* a call returns after its hard refresh, having signed and sent once
C10_Witness ==
  /\ returned.refreshes = << returned.actualApiKeyIndex >>
  /\ Len(returned.signs) = 1
  /\ Len(returned.sends) = 1
  /\ returned.pc = "done"

\* the operation the harness applied last, and the one before it
Last == recent[Len(recent)]
Prev == recent[Len(recent) - 1]
OwnedCount == endApiKey - StartApiKey + 1

\* C11 (as claimed): next_nonce() on a slot at counter K followed by
\* acknowledge_failure(slot) leaves the counter at K; acknowledge_failure
\* never makes a counter negative and leaves a counter of 0 at 0; the
\* rollback is idempotent (a second acknowledge_failure changes nothing).
C11_RollbackIdempotent ==
  /\ \A k \in DOMAIN nonces : nonces[k] >= 0
  /\ (Len(recent) >= 1 /\ Last.op = "acknowledge_failure" /\ Last.before = 0) =>
       MapGet(nonces, Last.slot) = 0
  /\ ( /\ Len(recent) = 2
       /\ Prev.op = "next_nonce"
       /\ Last.op = "acknowledge_failure"
       /\ Last.slot = Prev.slot ) =>
       MapGet(nonces, Last.slot) = Prev.before
  /\ ( /\ Len(recent) = 2
       /\ Prev.op = "acknowledge_failure"
       /\ Last.op = "acknowledge_failure"
       /\ Last.slot = Prev.slot ) =>
       MapGet(nonces, Last.slot) = Last.before

\* C11 (amended): next_nonce() on a slot at counter K followed by
\* acknowledge_failure(slot) leaves the counter at K; acknowledge_failure
\* never makes a counter negative and leaves a counter of 0 at 0; the
\* rollback is not idempotent: every acknowledge_failure on a counter above
\* 0 takes one off, a second one included.
C11_RollbackRestores ==
  /\ \A k \in DOMAIN nonces : nonces[k] >= 0
  /\ (Len(recent) >= 1 /\ Last.op = "acknowledge_failure") =>
       MapGet(nonces, Last.slot) =
         (IF Last.before = 0 THEN 0 ELSE Last.before - 1)
  /\ ( /\ Len(recent) = 2
       /\ Prev.op = "next_nonce"
       /\ Last.op = "acknowledge_failure"
       /\ Last.slot = Prev.slot ) =>
       MapGet(nonces, Last.slot) = Prev.before

\* next_nonce() took a slot from K >= 1 to K + 1 and acknowledge_failure
\* has just brought it back
C11_Witness ==
  /\ Len(recent) = 2
  /\ Prev.op = "next_nonce"
  /\ Prev.before >= 1
  /\ Last.op = "acknowledge_failure"
  /\ Last.slot = Prev.slot
  /\ Last.before = Prev.before + 1

\* C12: when hard_refresh_nonce(slot) completes with the Exchange reporting
\* nonce M, the slot's counter is M, whatever next_nonce() and
\* acknowledge_failure() had left in it.
C12_RefreshOverrides ==
  ( /\ Len(recent) >= 1
    /\ Last.op = "hard_refresh_nonce"
    /\ Last.answer.kind = "ok" ) =>
    MapGet(nonces, Last.slot) = Last.answer.nonce

\* next_nonce() advanced a slot and the refresh then set it to a lower M
C12_Witness ==
  /\ Len(recent) = 2
  /\ Prev.op = "next_nonce"
  /\ Last.op = "hard_refresh_nonce"
  /\ Last.slot = Prev.slot
  /\ Last.answer.kind = "ok"
  /\ Last.answer.nonce < Last.before
  /\ MapGet(nonces, Last.slot) = Last.answer.nonce

\* C13: the i-th next_nonce() call (i = 0, 1, ...) returns slot
\* start + (i mod (end - start + 1)) whatever acknowledge_failure and
\* hard_refresh_nonce calls came in between; the slot lies in [start, end];
\* the nonce is the slot's counter before the call and the counter is then
\* one more.
C13_RoundRobin ==
  /\ currentApiKey = StartApiKey + (issued % OwnedCount)
  /\ (Len(recent) >= 1 /\ Last.op = "next_nonce") =>
       /\ Last.slot = StartApiKey + (Last.index % OwnedCount)
       /\ Last.slot \in StartApiKey..endApiKey
       /\ Last.nonce = Last.before
       /\ MapGet(nonces, Last.slot) = Last.before + 1

\* on a client of several slots the round robin has wrapped, a rollback or
\* a refresh having come just before the call
C13_Witness ==
  /\ OwnedCount >= 2
  /\ Len(recent) = 2
  /\ Prev.op \in {"acknowledge_failure", "hard_refresh_nonce"}
  /\ Last.op = "next_nonce"
  /\ Last.index >= OwnedCount
  /\ Last.slot = StartApiKey

\* a step that issues a nonce of slot k or rolls slot k back
IssuesOrRollsBack(k) ==
  \/ k \in DOMAIN history /\ history'[k] /= history[k]
  \/ returned'.acks /= <<>> /\ returned'.actualApiKeyIndex = k

\* C14 (as claimed): no next_nonce() or acknowledge_failure() on slot K takes
\* effect between the moment a hard_refresh_nonce(K) reads the server nonce
\* and the moment it stores it, so a refresh never overwrites a counter
\* change it did not observe.
C14_RefreshSerialized ==
  [][ \A c \in Calls :
        ( /\ calls[c].pc = "refreshing"
          /\ calls[c].fetch /= NoAnswer
          /\ calls'[c] = calls[c] )
        => ~IssuesOrRollsBack(calls[c].actualApiKeyIndex) ]_vars

\* C15 (as claimed): get_api_key_nonce(-1, n) with n >= 0 rejects with
\* "ambiguous api key" on a client that owns several slots and returns
\* (s, n) on a client that owns the one slot s.
C15_SoleSlotKeepsNonce ==
  ( /\ Len(recent) >= 1
    /\ Last.op = "get_api_key_nonce"
    /\ Last.api_key_index = AUTO
    /\ Last.nonce /= AUTO ) =>
    IF OwnedCount > 1
    THEN Last.out = [kind |-> "throw", message |-> <<"ambiguous api key">>]
    ELSE Last.out = [kind |-> "pair", apiKeyIndex |-> StartApiKey,
                     nonce |-> Last.nonce]

\* C16: with api_key_index and nonce both explicit the pair is used as given
\* and next_nonce() is not called; with both -1 the pair is the result of
\* exactly one next_nonce() call.
C16_ExplicitOrDelegated ==
  ( /\ Len(recent) >= 1
    /\ Last.op \in {"get_api_key_nonce", "process_api_key_and_nonce"} ) =>
    /\ (Last.api_key_index /= AUTO /\ Last.nonce /= AUTO) =>
         /\ Last.out = [kind |-> "pair", apiKeyIndex |-> Last.api_key_index,
                        nonce |-> Last.nonce]
         /\ issued = Last.index
         /\ currentApiKey = Last.cur
         /\ MapGet(nonces, Last.cur) = Last.before
    /\ (Last.api_key_index = AUTO /\ Last.nonce = AUTO) =>
         /\ Last.out = [kind |-> "pair", apiKeyIndex |-> Last.cur,
                        nonce |-> Last.before]
         /\ issued = Last.index + 1
         /\ MapGet(nonces, Last.cur) = Last.before + 1

\* the wrapper has resolved an explicit pair as given, right after
\* get_api_key_nonce delegated a call without slot and nonce to next_nonce()
C16_Witness ==
  /\ Len(recent) = 2
  /\ Prev.op = "get_api_key_nonce"
  /\ Prev.api_key_index = AUTO /\ Prev.nonce = AUTO
  /\ Prev.out.kind = "pair"
  /\ Last.op = "process_api_key_and_nonce"
  /\ Last.api_key_index = LastApiKey /\ Last.nonce = ManualNonce
  /\ Last.out.apiKeyIndex = LastApiKey /\ Last.out.nonce = ManualNonce
  /\ issued = 1

\* the invocations the state shows: those in progress and the one that has
\* just returned or thrown
Invocations == {calls[c] : c \in Calls} \cup {returned}

\* C17 (as claimed): a call with an explicit slot and the auto-nonce
\* sentinel is rejected: no signing call is made with nonce -1 and nothing
\* is submitted to the Exchange.
C17_SlotWithoutNonceRejected ==
  \A call \in Invocations :
    (call.op \in WrappedOps /\ call.api_key_index /= AUTO /\ call.nonce = AUTO) =>
      /\ call.signs = <<>>
      /\ call.sends = <<>>

\* C18 (as claimed): for every input pair and manager state the wrapper
\* goes on with the slot and nonce get_api_key_nonce yields for that input,
\* and rejects exactly when get_api_key_nonce rejects.
C18_WrapperFollowsPolicy ==
  (Len(recent) >= 1 /\ Last.op = "process_api_key_and_nonce") =>
    Last.out = Last.policy

\* C19 (as claimed): with nonce -1 (and api key index -1 where the method
\* takes one) every transaction method hands the native signer a nonce the
\* nonce manager issued, never the sentinel -1.
C19_SentinelNeverSigned ==
  \A call \in Invocations :
    (call.op \in Ops /\ call.nonce = AUTO /\ call.api_key_index = AUTO) =>
      \A i \in 1..Len(call.signs) : call.signs[i].nonce /= AUTO

\* C20 (as claimed): every signing call of a nonce-bearing operation is made
\* under the slot the call itself has switched the native signer to just
\* before, the slot of the nonce it signs.
C20_SignsUnderOwnSlot ==
  \A call \in Invocations :
    \A i \in 1..Len(call.signs) :
      /\ call.switches /= <<>>
      /\ call.signs[i].key = call.switches[Len(call.switches)]
      /\ call.signs[i].key = call.actualApiKeyIndex

\* the constructor call on record: its private_keys option, the slots it was
\* to own, and whether the first slot's entry is the primary key
GivenKeys == built.call.private_keys
ToOwn == StartApiKey..built.call.end
InitialEntryMatches ==
  /\ StartApiKey \in DOMAIN GivenKeys
  /\ Strip0x(GivenKeys[StartApiKey]) = Strip0x(built.call.private_key)
Constructing(type) ==
  built.status /= "none" /\ built.call.nonce_management_type = type

\* C21 (as claimed): construction accepts a private_keys map exactly when
\* its key set is every owned slot except the initial one, or every owned
\* slot with the initial entry equal to the primary key (a leading 0x
\* ignored); every other map fails with a configuration error, before any
\* CreateClient call.
C21_KeyMapAcceptedIffComplete ==
  Constructing("optimistic") =>
    IF \/ DOMAIN GivenKeys = ToOwn \ {StartApiKey}
       \/ DOMAIN GivenKeys = ToOwn /\ InitialEntryMatches
    THEN built.manager
    ELSE built.status = "thrown" /\ ~built.manager /\ built.created = <<>>

\* C22 (as claimed): a map that supplies only the non-initial slots is
\* accepted; a map whose entry for the initial slot differs from the primary
\* key fails with "inconsistent private keys", the primary key is never
\* put in its place.
C22_MismatchedInitialRejected ==
  Constructing("optimistic") =>
    /\ DOMAIN GivenKeys = ToOwn \ {StartApiKey} => built.manager
    /\ StartApiKey \in DOMAIN GivenKeys /\ ~InitialEntryMatches =>
         /\ built.status = "thrown"
         /\ built.error = [text |-> "inconsistent private keys"]

\* C23 (as claimed): once the options are accepted the constructor calls
\* CreateClient once per slot, in order from the first owned slot, with the
\* URL, that slot's private key, the chain id, the slot index and the
\* account index; it throws if and only if the signer reported an error,
\* and otherwise has covered every slot up to the last.
C23_OneCreateClientPerSlot ==
  built.status /= "none" /\ built.manager =>
    /\ Len(built.created) \in 1..(built.call.end - StartApiKey + 1)
    /\ \A i \in 1..Len(built.created) :
         /\ built.created[i].keyIndex = StartApiKey + i - 1
         /\ built.created[i].url = built.call.url
         /\ built.created[i].chain_id = (IF built.call.url = Mainnet THEN 304 ELSE 300)
         /\ built.created[i].account_index = AccountIndex
         /\ built.created[i].apiKey.kind = "str"
         /\ Strip0x(built.created[i].apiKey.value) =
              (IF i = 1 THEN Strip0x(built.call.private_key) ELSE OtherKey)
    /\ built.status = "constructed" =>
         Len(built.created) = built.call.end - StartApiKey + 1
    /\ built.status = "thrown" => built.error = [text |-> CreateClientError]

JustFetched == recent /= <<>> /\ Last.op = "initialize"

\* C25 (as claimed): a failed fetch of initialize() leaves that slot's
\* counter at 0, the remaining slots are still fetched, and a successful
\* fetch sets the counter to the fetched value.
C25_FailedFetchLeavesZero ==
  JustFetched =>
    /\ initAt = Last.slot + 1
    /\ nonces[Last.slot] = (IF Last.answer.kind = "ok" THEN Last.answer.nonce ELSE 0)

\* C25 (amended): initialize() fetches the slots one after the other, each
\* once; a failed fetch leaves that slot's counter as it was (0 unless
\* next_nonce() has advanced it meanwhile), does not stop the fetches of the
\* remaining slots and raises nothing; a successful fetch sets the counter
\* to the fetched value.
C25_FailedFetchLeavesCounter ==
  JustFetched =>
    /\ initAt = Last.slot + 1
    /\ Last.slot \in StartApiKey..endApiKey
    /\ built.status = "constructed" \/ built.error = [text |-> CreateClientError]
    /\ Len(recent) = 2 /\ Prev.op = "initialize" => Prev.slot = Last.slot - 1
    /\ nonces[Last.slot] =
         (IF Last.answer.kind = "ok" THEN Last.answer.nonce ELSE Last.before)

C25_Witness ==
  /\ JustFetched
  /\ Last.answer.kind = "error"
  /\ Last.before > 0
  /\ Last.slot < endApiKey
  /\ initAt = Last.slot + 1

\* the signer handed the invocation a payload, without an error, that does
\* not begin with "{"
SignedMalformed(call) ==
  /\ call.signs /= <<>>
  /\ ~Truthy(call.signs[1].answer.err)
  /\ Truthy(call.signs[1].answer.str)
  /\ call.signs[1].answer.str.value[1] /= "{"

L1Ops == {"transfer", "change_api_key"}

\* C27: every transaction of transfer or change_api_key that is submitted is
\* the one the API-key signer produced for this invocation, with the message
\* to sign taken out and with an L1 signature made with the owner key over
\* that message; nothing is submitted unless the signer supplied the
\* message and the owner key could sign it.
C27_L1SignatureAttached ==
  \A call \in Invocations :
    call.op \in L1Ops =>
      /\ Len(call.sends) <= 1
      /\ \A i \in 1..Len(call.sends) :
           /\ Len(call.signs) = 1
           /\ ~Truthy(call.signs[1].answer.err)
           /\ Truthy(call.signs[1].answer.str)
           /\ call.signs[1].answer.str.value[1] = "{"
           /\ call.input.eth_private_key = OwnerKey
           /\ LET signed == call.signs[1].answer.str.value[2]
                  tx == call.sends[i][2]
              IN /\ "MessageToSign" \in DOMAIN signed
                 /\ DOMAIN tx = ((DOMAIN signed) \ {"MessageToSign"}) \cup {"L1Sig"}
                 /\ tx.L1Sig = [ kind |-> "signature",
                                 key |-> call.input.eth_private_key,
                                 message |-> signed.MessageToSign ]
                 /\ tx.Nonce = signed.Nonce
                 /\ tx.ApiKeyIndex = signed.ApiKeyIndex

C27_Witness ==
  /\ returned.op = "transfer"
  /\ returned.pc = "done"
  /\ returned.result.kind = "tuple"
  /\ returned.result.resp = RespOk
  /\ Len(returned.sends) = 1

\* C28: create_market_order(nonce = -1, api_key_index = -1) takes its slot
\* and nonce from one next_nonce() call (the round-robin slot and its
\* counter, which goes up by one), switches the signer to that slot and
\* signs once, a market order, immediate or cancel, trigger price 0,
\* expiry 0, with that nonce; when the Exchange accepts it the method
\* returns the parsed order and the Exchange's response.
C28_MarketOrderSignsOnce ==
  [][ /\ \A c \in Calls :
           calls[c].pc = "idle" /\ calls'[c].op = "create_market_order" =>
             /\ calls'[c].auto
             /\ calls'[c].actualApiKeyIndex = currentApiKey
             /\ calls'[c].actualNonce = nonces[currentApiKey]
             /\ nonces' = [nonces EXCEPT ![currentApiKey] = @ + 1]
             /\ calls'[c].switches = << currentApiKey >>
             /\ activeApiKey' = currentApiKey
             /\ Len(calls'[c].signs) = 1
             /\ calls'[c].signs[1].key = currentApiKey
             /\ calls'[c].signs[1].nonce = nonces[currentApiKey]
             /\ calls'[c].signs[1].request.fn = "SignCreateOrder"
             /\ calls'[c].signs[1].request.nonce = nonces[currentApiKey]
             /\ calls'[c].signs[1].request.order =
                  [ base_amount |-> calls'[c].input.base_amount,
                    price |-> calls'[c].input.avg_execution_price,
                    is_ask |-> calls'[c].input.is_ask,
                    order_type |-> 1, time_in_force |-> 0,
                    trigger_price |-> 0, order_expiry |-> 0 ]
      /\ ( /\ returned' /= returned
           /\ returned'.op = "create_market_order"
           /\ returned'.settled = RespOk ) =>
             /\ returned'.pc = "done"
             /\ Len(returned'.signs) = 1
             /\ returned'.sends = << returned'.signs[1].answer.str.value >>
             /\ returned'.result.kind = "tuple"
             /\ returned'.result.tx =
                  [ kind |-> "json",
                    value |-> [ Nonce |-> returned'.actualNonce,
                                ApiKeyIndex |-> returned'.actualApiKeyIndex ] ]
             /\ returned'.result.resp = RespOk
             /\ returned'.result.err = JNull
             /\ returned'.acks = <<>> /\ returned'.refreshes = <<>> ]_vars

C28_Witness ==
  /\ returned.op = "create_market_order"
  /\ returned.settled = RespOk
  /\ returned.pc = "done"
  /\ returned.auto
  /\ returned.actualNonce = InitialServerNonce
  /\ returned.signs[1].request.order.order_type = ORDER_TYPE_MARKET

RECURSIVE Depth(_)
Depth(orders) == IF orders = <<>> THEN 0 ELSE Head(orders).size + Depth(Tail(orders))

\* the book orderBookOrders reported cannot fill the order, or fills it at
\* an average price beyond the slippage bound
BookExhausted(q) ==
  q.book.kind = "data" /\ Depth(q.book.orders) < q.args.base_amount
BoundViolated(q) ==
  /\ q.book.kind = "data"
  /\ q.book.orders /= <<>>
  /\ Excessive(Walk(q.book.orders, q.args.base_amount, 0, 0),
               Acceptable100(IF q.args.ideal_price = JUndefined
                             THEN q.book.orders[1].price
                             ELSE q.args.ideal_price.value,
                             q.args.max_slippage, q.args.is_ask),
               q.args.is_ask)

\* C30 (as claimed): when the book is exhausted before the size is matched
\* (an empty book included) or the average price violates the slippage
\* bound, create_market_order_if_slippage returns an error value without
\* throwing, signs nothing, submits nothing and leaves every nonce counter
\* and the round-robin position as they were.
C30_UnfillableReturnsError ==
  [][ ( /\ returned' /= returned
        /\ returned'.op = "create_market_order_if_slippage"
        /\ BookExhausted(returned'.input) \/ BoundViolated(returned'.input) ) =>
      /\ returned'.pc = "done"
      /\ returned'.result.kind = "tuple"
      /\ returned'.result.tx = JNull
      /\ returned'.result.resp = JNull
      /\ Truthy(returned'.result.err)
      /\ returned'.signs = <<>>
      /\ returned'.sends = <<>>
      /\ nonces' = nonces
      /\ currentApiKey' = currentApiKey ]_vars

\* the invocations on record: those in progress and the one that just ended
OnRecord == { calls[c] : c \in Calls } \cup {returned}

\* the tx_type with which an invocation made its sendTx requests, all alike
SubmitsWith(call, code) ==
  /\ Len(call.tx_types) = Len(call.sends)
  /\ \A i \in 1..Len(call.tx_types) : call.tx_types[i] = code

\* C31: every per-operation method submits with its fixed transaction-type
\* code: change-pubkey 8, create-sub-account 9, create-public-pool 10,
\* update-public-pool 11, transfer 12, withdraw 13, create-order 14 (all order
\* variants), cancel-order 15, cancel-all-orders 16, modify-order 17,
\* mint-shares 18, burn-shares 19, update-leverage 20, create-grouped-order 28.
C31_FixedTxTypeCodes ==
  \A call \in OnRecord :
    /\ call.op = "change_api_key" => SubmitsWith(call, 8)
    /\ call.op = "create_sub_account" => SubmitsWith(call, 9)
    /\ call.op = "create_public_pool" => SubmitsWith(call, 10)
    /\ call.op = "update_public_pool" => SubmitsWith(call, 11)
    /\ call.op = "transfer" => SubmitsWith(call, 12)
    /\ call.op = "withdraw" => SubmitsWith(call, 13)
    /\ call.op \in { "create_order", "create_market_order",
                     "create_market_order_if_slippage" } => SubmitsWith(call, 14)
    /\ call.op = "cancel_order" => SubmitsWith(call, 15)
    /\ call.op = "cancel_all_orders" => SubmitsWith(call, 16)
    /\ call.op = "modify_order" => SubmitsWith(call, 17)
    /\ call.op = "mint_shares" => SubmitsWith(call, 18)
    /\ call.op = "burn_shares" => SubmitsWith(call, 19)
    /\ call.op = "update_leverage" => SubmitsWith(call, 20)
    /\ call.op = "create_grouped_orders" => SubmitsWith(call, 28)
    /\ call.op = "none" => call.sends = <<>>

\* a create_grouped_orders call has returned the answer of the Exchange to
\* the one request it made
C31_Witness ==
  /\ returned.op = "create_grouped_orders"
  /\ returned.pc = "done"
  /\ Len(returned.sends) = 1
  /\ returned.tx_types = << 28 >>
  /\ returned.result.kind = "tuple"
  /\ returned.result.resp = RespOk

\* C32: the chain id chosen at construction is a function of the base URL
\* only: 304 when the URL contains the mainnet marker and 300 otherwise; the
\* same chain id is passed to CreateClient for every owned slot and never
\* changes afterwards.
C32_ChainIdFromUrl ==
  [][ /\ built'.status /= "none" =>
          /\ built'.chain_id =
               IF \E i \in 1..Len(built'.call.url) : built'.call.url[i] = "mainnet"
               THEN 304 ELSE 300
          /\ \A i \in 1..Len(built'.created) :
               built'.created[i].chain_id = built'.chain_id
      /\ built.status /= "none" => built'.chain_id = built.chain_id ]_vars

\* a mainnet client of two slots was constructed and initialize() is over
C32_Witness ==
  /\ built.status = "constructed"
  /\ built.call.url = Mainnet
  /\ Len(built.created) = 2
  /\ built.created[2].chain_id = 304
  /\ initAt > endApiKey

\* the caller gave both the slot and the nonce
ManualOverride(call) == call.api_key_index /= AUTO /\ call.nonce /= AUTO

\* C33: acknowledge_failure(slot) and hard_refresh_nonce(slot) are invoked by
\* the submission wrapper only for a call whose nonce was issued by
\* next_nonce(): a call made with an explicit slot and an explicit nonce
\* never changes any slot's counter, whether it succeeds or fails.
C33_ManualOverrideLeavesCounters ==
  [][ /\ \A c \in Calls :
           (calls'[c].acks /= <<>> \/ calls'[c].refreshes /= <<>>) => calls'[c].auto
      /\ (returned'.acks /= <<>> \/ returned'.refreshes /= <<>>) => returned'.auto
      /\ \A c \in Calls :
           ( /\ ManualOverride(calls[c])
             /\ calls[c].op \in WrappedOps
             /\ calls'[c] /= calls[c]
             /\ \A d \in Calls \ {c} : calls'[d] = calls[d] )
           => nonces' = nonces ]_vars

\* how many of the statements hold
HowMany(statements) == Cardinality({ i \in DOMAIN statements : statements[i] })

\* the Exchange reported success for the transaction the call submitted
Committed(call) ==
  /\ call.sends /= <<>>
  /\ call.result.kind = "tuple"
  /\ call.result.resp /= JNull
  /\ call.result.resp.code = CODE_OK

\* C34: every reservation issued by next_nonce() inside a wrapped call is
\* resolved by the time that call returns or throws: it is committed
\* (successful submission), rolled back (acknowledge_failure) or invalidated
\* (hard_refresh_nonce), exactly one of the three; in particular a failing
\* slot switch, which is thrown, does not leave the slot's counter advanced
\* with no transaction submitted.
C34_ReservationResolved ==
  (returned.auto /\ Over(returned)) =>
    /\ HowMany(<< Committed(returned),
                  returned.acks = << returned.actualApiKeyIndex >>,
                  returned.refreshes = << returned.actualApiKeyIndex >> >>) = 1
    /\ Len(returned.acks) + Len(returned.refreshes) <= 1

\* C35: a client used while the un-awaited initialize() has not finished
\* stays safe: a nonce that next_nonce() issued for a slot before initialize()
\* stored that slot's server value is not issued again by next_nonce() after
\* the store (next_nonce() alone has touched the counter, so the nonces
\* issued before the store are those below the counter the store found), and
\* initialize() never overwrites a counter change made after its fetch for
\* that slot was answered.
C35_WindowIsSafe ==
  [][ /\ ( /\ JustFetched
           /\ issued' = issued + 1
           /\ recent'[Len(recent')].slot = Last.slot )
         => recent'[Len(recent')].nonce >= Last.before
      /\ ( /\ recent /= <<>>
           /\ Last.op = "next_nonce"
           /\ Last.answered
           /\ initAt' = initAt + 1
           /\ Last.slot = initAt )
         => nonces'[initAt] = nonces[initAt] ]_vars

\* invocation c is the one that ends in this step
Completes(c) ==
  /\ calls[c].pc /= "over"
  /\ calls'[c].pc = "over"
  /\ Over(returned')

\* C36: quiescent agreement with the server: if initialization has completed
\* successfully (the call was handed the nonce the Exchange expects), the
\* client is the only user of its slots, all calls are auto-managed and run
\* one at a time, and every refresh fetch succeeds, then after each call
\* completes every slot's local counter equals the Exchange's next expected
\* nonce for that slot.
C36_QuiescentAgreement ==
  [][ \A c \in Calls :
        ( /\ Completes(c)
          /\ returned'.auto
          /\ initAt > endApiKey
          /\ returned'.actualNonce = InitialServerNonce
          /\ \A d \in Calls \ {c} : calls[d].pc \in {"idle", "over"}
          /\ returned'.refetched.kind \notin {"undefined", "error"} )
        => \A k \in Slots : nonces'[k] = serverNonce'[k] ]_vars

\* C37: when the nonce fetch inside hard_refresh_nonce(slot) fails or returns
\* no nonce, the slot's counter is left unchanged (it still includes the
\* optimistic increment of the rejected call: it is the issued nonce plus one
\* when nothing else touched the slot), nothing is thrown, and the wrapped
\* call still returns the invalid-nonce error to the caller.
C37_FailedRefreshKeepsCounter ==
  [][ returned' /= returned
        /\ returned'.refetched.kind \in {"undefined", "error"} =>
      LET slot == returned'.actualApiKeyIndex IN
      /\ nonces' = nonces
      /\ returned'.auto /\ Undisturbed(returned') =>
           nonces'[slot] = returned'.actualNonce + 1
      /\ returned'.pc = "done"
      /\ returned'.refreshes = << slot >>
      /\ returned'.acks = <<>>
      /\ InvalidNonceRejection(returned'.settled)
      /\ returned'.result.kind = "tuple"
      /\ returned'.result.tx = JNull
      /\ returned'.result.resp = JNull
      /\ returned'.result.err.kind = "str"
      /\ LastLineOf(returned'.result.err.value,
                    returned'.settled.message.value) ]_vars

\* an auto-managed call returns after a hard refresh whose fetch threw
C37_Witness ==
  /\ returned.op \in WrappedOps
  /\ returned.auto
  /\ returned.pc = "done"
  /\ returned.refetched.kind = "error"
  /\ nonces[returned.actualApiKeyIndex] = returned.actualNonce + 1

\* the operation the unit harness applies in this step
Applied == recent'[Len(recent')]

\* the counters of all slots but k are after the step what they were before
OthersKept(k) ==
  /\ DOMAIN nonces' \ {k} = DOMAIN nonces \ {k}
  /\ \A j \in DOMAIN nonces \ {k} : nonces'[j] = nonces[j]

\* C38: each Nonce Manager operation changes only its own slot: next_nonce()
\* changes the counter of the slot it returns and the round-robin position
\* and nothing else; acknowledge_failure(k) and hard_refresh_nonce(k) change
\* at most the counter of slot k and leave the round-robin position and
\* every other slot's counter unchanged.
C38_OwnSlotOnly ==
  [][ opsDone' = opsDone + 1 =>
      /\ Applied.op = "next_nonce" =>
           /\ Applied.slot = currentApiKey
           /\ OthersKept(Applied.slot)
           /\ endApiKey' = endApiKey
      /\ Applied.op \in {"acknowledge_failure", "hard_refresh_nonce"} =>
           /\ OthersKept(Applied.slot)
           /\ currentApiKey' = currentApiKey
           /\ endApiKey' = endApiKey ]_vars

\* on a client of several slots, a rollback has lowered its slot's counter
\* while another slot's counter is above 0
C38_Witness ==
  /\ recent /= <<>>
  /\ Last.op = "acknowledge_failure"
  /\ Last.before > 0
  /\ nonces[Last.slot] = Last.before - 1
  /\ \E j \in OwnedSlots \ {Last.slot} : nonces[j] > 0

\* C39: check_client() checks the owned slots in increasing order, returns
\* null exactly when CheckClient succeeds for every slot in [start, end], and
\* otherwise returns the error of the first failing slot, identifying in its
\* message the slot index whose check failed.
C39_CheckClientNamesFailingSlot ==
  (recent /= <<>> /\ Last.op = "check_client") =>
    /\ \A i \in 1..Len(Last.checks) : Last.checks[i].api_key = StartApiKey + i - 1
    /\ Last.result = JNull <=> Last.failAt \notin StartApiKey..endApiKey
    /\ Last.result = JNull => Len(Last.checks) = endApiKey - StartApiKey + 1
    /\ Last.result /= JNull =>
         /\ Last.checks[Len(Last.checks)].api_key = Last.failAt
         /\ Last.result.error = Str(CheckClientError)
         /\ Last.result.api_key = Last.failAt

\* C40: in the rollup contract, after any sequence of commitBatch,
\* verifyBatch, executeBatches and revertBatches calls that do not revert,
\* executedBatchesCount <= verifiedBatchesCount <= committedBatchesCount and
\* executedPriorityRequestCount <= verifiedPriorityRequestCount <=
\* committedPriorityRequestCount: a batch is verified only in order and only
\* if committed, and an executed batch or priority request is never reverted.
C40_BatchCountsOrdered ==
  [][ LET before == rollup.storage
          after == rollup'.storage
          passed == rollup'.call.batches
      IN
      /\ after.executedBatchesCount <= after.verifiedBatchesCount
      /\ after.verifiedBatchesCount <= after.committedBatchesCount
      /\ after.executedPriorityRequestCount <= after.verifiedPriorityRequestCount
      /\ after.verifiedPriorityRequestCount <= after.committedPriorityRequestCount
      /\ rollup'.call.fn = "verifyBatch" =>
           /\ passed[1].batchNumber = before.verifiedBatchesCount + 1
           /\ passed[1].batchNumber <= before.committedBatchesCount
           /\ before.storedBatchHashes[passed[1].batchNumber]
                = hashStoredBatchInfo(passed[1])
           /\ after.verifiedBatchesCount = passed[1].batchNumber
      /\ rollup'.call.fn = "revertBatches" =>
           /\ \A i \in 1..Len(passed) :
                passed[i].batchNumber > before.executedBatchesCount
           /\ after.executedBatchesCount = before.executedBatchesCount
           /\ after.executedPriorityRequestCount = before.executedPriorityRequestCount
           /\ after.committedBatchesCount = before.committedBatchesCount - Len(passed)
           /\ after.committedPriorityRequestCount >= before.executedPriorityRequestCount
           /\ \A n \in 0..before.executedBatchesCount :
                after.storedBatchHashes[n] = before.storedBatchHashes[n] ]_vars

\* two batches were reverted and what is left is all verified, while a batch
\* and a priority request are executed
C40_Witness ==
  /\ rollup.call.fn = "revertBatches"
  /\ Len(rollup.call.batches) = 2
  /\ rollup.storage.executedBatchesCount >= 1
  /\ rollup.storage.executedPriorityRequestCount >= 1
  /\ rollup.storage.verifiedBatchesCount = rollup.storage.committedBatchesCount

====
